---- MODULE Spec2Model ----
(***************************************************************************)
(* Literature manager: the data-access layer (src/src/database.py) over    *)
(* the SQLite schema of src/setup_database.py, with the vocabularies of    *)
(* src/src/models.py.                                                      *)
(*                                                                         *)
(* The store is three tables. A table is the sequence of its rows in rowid *)
(* (insertion) order. Every public method of LiteratureDatabase is an      *)
(* operator from the store and the call's arguments to the call's outcome  *)
(* and the store it leaves behind; the actions of the specification apply  *)
(* these operators to inputs drawn from small sets.                        *)
(***************************************************************************)
EXTENDS Integers, Sequences, FiniteSets, TLC

(***************************************************************************)
(* Bounds of the model.                                                    *)
(***************************************************************************)
\* Rows of the store file, the three tables together.
MaxRows == 4
\* The store's CURRENT_TIMESTAMP runs over 0..MaxClock (seconds).
MaxClock == 1
\* The rows of the store while the connections of the calls are followed.
MaxStoreRows == 2

(***************************************************************************)
(* Python None (an absent dict) and SQL NULL (an absent column value).     *)
(***************************************************************************)
None == [py_none |-> TRUE]
NULL == "NULL"

(***************************************************************************)
(* src/src/models.py: the four vocabularies and their membership tests.    *)
(***************************************************************************)
VALID_SOURCE_TYPES == {"paper", "webpage", "book", "video", "blog"}
VALID_IDENTIFIER_TYPES == {"semantic_scholar", "arxiv", "doi", "isbn", "url"}
VALID_STATUS_VALUES == {"unread", "reading", "completed", "archived"}
VALID_RELATION_TYPES ==
    {"discusses", "introduces", "extends", "evaluates", "applies", "critiques"}

validate_source_type(source_type) == source_type \in VALID_SOURCE_TYPES

\* A membership test that accepts every identifier type.
validate_identifier_type_any(identifier_type) == TRUE

validate_identifier_type(identifier_type) == identifier_type \in VALID_IDENTIFIER_TYPES

\* A membership test that accepts every status.
validate_status_any(status) == TRUE

validate_status(status) == status \in VALID_STATUS_VALUES
validate_relation_type(relation_type) == relation_type \in VALID_RELATION_TYPES

(***************************************************************************)
(* src/setup_database.py: the CHECK constraints of the schema. They repeat *)
(* the vocabularies as literals of the CREATE TABLE statements.            *)
(***************************************************************************)
CHECK_sources_type == {"paper", "webpage", "book", "video", "blog"}
CHECK_sources_status == {"unread", "reading", "completed", "archived"}
CHECK_links_relation_type ==
    {"discusses", "introduces", "extends", "evaluates", "applies", "critiques"}
DEFAULT_sources_status == "unread"

(***************************************************************************)
(* JSON. A Python dict is a function from keys to values; its JSON text is *)
(* the sequence of tokens  { k : v , k : v }.                              *)
(***************************************************************************)
RECURSIVE json_members(_, _)
json_members(dict, keys) ==
    IF keys = {} THEN <<>>
    ELSE LET k == CHOOSE x \in keys : TRUE
             rest == json_members(dict, keys \ {k})
         IN <<k, ":", dict[k]>> \o (IF rest = <<>> THEN <<>> ELSE <<",">> \o rest)


\* A serializer that writes each member as  value : key.
json_dumps_swapped(dict) ==
    LET k == CHOOSE x \in DOMAIN dict : TRUE
    IN <<"{", dict[k], ":", k, "}">>

\* json.dumps(dict)
json_dumps(dict) == <<"{">> \o json_members(dict, DOMAIN dict) \o <<"}">>

\* The members of a JSON object text as a sequence of <<key, value>> pairs.
RECURSIVE json_pairs(_, _)
json_pairs(text, i) ==
    IF i + 2 > Len(text) - 1 THEN <<>>
    ELSE <<<<text[i], text[i + 2]>>>> \o json_pairs(text, i + 4)

\* json.loads(text): later members override earlier ones.
RECURSIVE json_object(_, _)
json_object(pairs, n) ==
    IF n = 0 THEN <<>>
    ELSE LET before == json_object(pairs, n - 1)
             k == pairs[n][1]
         IN [x \in (DOMAIN before) \cup {k} |->
                IF x = k THEN pairs[n][2] ELSE before[x]]

json_loads(text) == LET pairs == json_pairs(text, 2) IN json_object(pairs, Len(pairs))

\* The Python f-string f"$.{identifier_type}": the JSON path of one member.
json_path(key) == <<"$", key>>

\* An extraction that takes the first member whatever its key.
json_extract_any_key(text, path) ==
    LET pairs == json_pairs(text, 2)
    IN IF pairs = <<>> THEN NULL ELSE pairs[1][2]

\* SQLite json_extract(text, path): the value at the path, NULL if there is none.
json_extract(text, path) ==
    LET pairs == json_pairs(text, 2)
        hits == {i \in DOMAIN pairs : pairs[i][1] = path[2]}
    IN IF hits = {} THEN NULL
       ELSE pairs[CHOOSE i \in hits : \A j \in hits : i <= j][2]

\* SQL  a = b : never true of NULL.
sql_eq(a, b) == a # NULL /\ b # NULL /\ a = b

(***************************************************************************)
(* The store file and a connection to it.                                  *)
(***************************************************************************)
\* The store as setup_database.create_database leaves it.
create_database ==
    [sources |-> <<>>, source_notes |-> <<>>, source_entity_links |-> <<>>]

\* sqlite3.connect: a connection sees the file; its writes go to a
\* transaction that only commit() makes durable.
sqlite_connect(db) == [file |-> db, tx |-> db]
sqlite_commit(conn) == [conn EXCEPT !.file = conn.tx]

\* A close that makes the open transaction durable.
sqlite_close_keeps_transaction(conn) == conn.tx

\* conn.close() in the finally of get_db_connection: an open transaction is
\* rolled back, the file keeps what was committed.
sqlite_close(conn) == conn.file

\* What the store can do to a write: nothing, fail the statement, fail the commit.
Faults == {"none", "execute", "commit"}


(***************************************************************************)
(* What a call gives back: a return value, or a raised DatabaseError. The  *)
(* code has one exception class; the kind is the message it is built with: *)
(*   ValidationError  "Invalid source type|identifier type|status|..."     *)
(*   ConflictError    "Source already exists with ID: ...", "Note with     *)
(*                    title ... already exists", "Link already exists ..." *)
(*   NotFoundError    "Source not found: ..."                              *)
(*   StoreError       "Failed to add source|add note|update status|..."    *)
(***************************************************************************)
Return(value, db) == [outcome |-> "ok", detail |-> NULL, value |-> value, db |-> db]
Raise(kind, detail, db) == [outcome |-> kind, detail |-> detail, value |-> NULL, db |-> db]

\* cursor.fetchone() on the rowids a statement selected: the first in scan
\* order.
FirstOf(rowids) == CHOOSE i \in rowids : \A j \in rowids : i <= j

\* All the orders in which a statement may return the rows `rowids` of
\* `table`: every arrangement when it has no ORDER BY, every arrangement
\* that never puts an older row before a newer one when it has
\* ORDER BY created_at DESC (rows of one created_at come in any order).
Arrangements(table, rowids, by_created_at_desc) ==
    {f \in [1..Cardinality(rowids) -> rowids] :
        /\ \A i, j \in DOMAIN f : i # j => f[i] # f[j]
        /\ by_created_at_desc =>
              \A i, j \in DOMAIN f :
                 i < j => table[f[i]].created_at >= table[f[j]].created_at}

(***************************************************************************)
(* The statements of database.py, on a connection.                         *)
(***************************************************************************)
\* INSERT INTO sources (id, title, type, identifiers) VALUES (?, ?, ?, ?)
\* under PRIMARY KEY(id), NOT NULL and CHECK(type); status and created_at
\* take their column defaults.
sql_insert_source(conn, now, id, title, type, identifiers) ==
    LET table == conn.tx.sources
        row == [id |-> id, title |-> title, type |-> type,
                identifiers |-> identifiers,
                status |-> DEFAULT_sources_status, created_at |-> now]
        rejected == \/ \E i \in DOMAIN table : table[i].id = id
                    \/ title = NULL
                    \/ type \notin CHECK_sources_type
    IN IF rejected THEN [error |-> TRUE, conn |-> conn]
       ELSE [error |-> FALSE, conn |-> [conn EXCEPT !.tx.sources = Append(@, row)]]


\* A WHERE clause that compares the whole identifiers text with the value.
sql_select_source_by_text(conn, type, path, value) ==
    {i \in DOMAIN conn.tx.sources :
        /\ sql_eq(conn.tx.sources[i].type, type)
        /\ conn.tx.sources[i].identifiers = <<value>>}

\* SELECT ... FROM sources WHERE type = ? AND json_extract(identifiers, ?) = ?
sql_select_source_by_identifier(conn, type, path, value) ==
    {i \in DOMAIN conn.tx.sources :
        /\ sql_eq(conn.tx.sources[i].type, type)
        /\ sql_eq(json_extract(conn.tx.sources[i].identifiers, path), value)}


\* A SELECT without its WHERE clause.
sql_select_source_any(conn, id) == DOMAIN conn.tx.sources

\* SELECT ... FROM sources WHERE id = ?
sql_select_source_by_id(conn, id) ==
    {i \in DOMAIN conn.tx.sources : conn.tx.sources[i].id = id}


\* A lookup that matches the identifier whatever the type of the source.
find_source_by_identifier_any_type(db, identifier_type, identifier_value, source_type) ==
    LET conn == sqlite_connect(db)
        rows == {i \in DOMAIN conn.tx.sources :
                    sql_eq(json_extract(conn.tx.sources[i].identifiers,
                                        json_path(identifier_type)),
                           identifier_value)}
    IN IF rows # {}
       THEN LET row == conn.tx.sources[FirstOf(rows)]
            IN Return([id |-> row.id, title |-> row.title, type |-> row.type,
                       identifiers |-> json_loads(row.identifiers),
                       status |-> row.status], sqlite_close(conn))
       ELSE Return(None, sqlite_close(conn))

(***************************************************************************)
(* LiteratureDatabase.find_source_by_identifier                            *)
(***************************************************************************)
find_source_by_identifier(db, identifier_type, identifier_value, source_type) ==
    LET conn == sqlite_connect(db)
        rows == sql_select_source_by_identifier(
                    conn, source_type, json_path(identifier_type), identifier_value)
    IN IF rows # {}
       THEN LET row == conn.tx.sources[FirstOf(rows)]
            IN Return([id |-> row.id, title |-> row.title, type |-> row.type,
                       identifiers |-> json_loads(row.identifiers),
                       status |-> row.status], sqlite_close(conn))
       ELSE Return(None, sqlite_close(conn))

(***************************************************************************)
(* LiteratureDatabase.add_source. `uuid` is what uuid4() returns and       *)
(* `now` the store's CURRENT_TIMESTAMP during the call.                    *)
(***************************************************************************)
add_source(db, now, uuid, fault, title, source_type, identifier_type, identifier_value) ==
    IF ~validate_source_type(source_type)
    THEN Raise("ValidationError", <<"source type", source_type>>, db)
    ELSE IF ~validate_identifier_type(identifier_type)
    THEN Raise("ValidationError", <<"identifier type", identifier_type>>, db)
    ELSE
    LET found == find_source_by_identifier(
                     db, identifier_type, identifier_value, source_type)
        existing == found.value
    IN IF existing # None
       THEN Raise("ConflictError", existing.id, found.db)
       ELSE
       LET source_id == uuid
           identifiers == (identifier_type :> identifier_value)
           conn == sqlite_connect(found.db)
           ins == IF fault = "execute" THEN [error |-> TRUE, conn |-> conn]
                  ELSE sql_insert_source(conn, now, source_id, title, source_type,
                                         json_dumps(identifiers))
       IN IF ins.error \/ fault = "commit"
          THEN Raise("StoreError", "Failed to add source", sqlite_close(ins.conn))
          ELSE Return(source_id, sqlite_close(sqlite_commit(ins.conn)))

(***************************************************************************)
(* LiteratureDatabase.get_source_by_id. ORDER BY created_at DESC leaves    *)
(* the order of notes with equal created_at to the store, and the SELECT   *)
(* of the links has no ORDER BY at all: the operator gives every result    *)
(* the store may produce.                                                  *)
(***************************************************************************)
\* SELECT note_title, content, created_at FROM source_notes
\* WHERE source_id = ? ORDER BY created_at DESC
sql_select_notes(conn, source_id) ==
    LET table == conn.tx.source_notes
        rows == {i \in DOMAIN table : table[i].source_id = source_id}
    IN {[i \in DOMAIN f |-> table[f[i]]] : f \in Arrangements(table, rows, TRUE)}

\* A SELECT of the links without its WHERE clause.
sql_select_links_of_all_sources(conn, source_id) ==
    LET table == conn.tx.source_entity_links
    IN {[i \in DOMAIN f |-> table[f[i]]] :
          f \in Arrangements(table, DOMAIN table, FALSE)}

\* SELECT entity_name, relation_type, notes, created_at
\* FROM source_entity_links WHERE source_id = ?
sql_select_links(conn, source_id) ==
    LET table == conn.tx.source_entity_links
        rows == {i \in DOMAIN table : table[i].source_id = source_id}
    IN {[i \in DOMAIN f |-> table[f[i]]] : f \in Arrangements(table, rows, FALSE)}

get_source_by_id(db, source_id) ==
    LET conn == sqlite_connect(db)
        rows == sql_select_source_by_id(conn, source_id)
    IN IF rows = {} THEN {Return(None, sqlite_close(conn))}
       ELSE
       LET source_row == conn.tx.sources[FirstOf(rows)]
       IN {Return([id |-> source_row.id,
                   title |-> source_row.title,
                   type |-> source_row.type,
                   identifiers |-> json_loads(source_row.identifiers),
                   status |-> source_row.status,
                   created_at |-> source_row.created_at,
                   notes |-> [i \in DOMAIN notes |->
                                [title |-> notes[i].note_title,
                                 content |-> notes[i].content,
                                 created_at |-> notes[i].created_at]],
                   entity_links |-> [i \in DOMAIN links |->
                                [entity_name |-> links[i].entity_name,
                                 relation_type |-> links[i].relation_type,
                                 notes |-> links[i].notes,
                                 created_at |-> links[i].created_at]]],
                  sqlite_close(conn)) :
             notes \in sql_select_notes(conn, source_id),
             links \in sql_select_links(conn, source_id)}


\* A check for the note title among the notes of all the sources.
sql_select_note_any_source(conn, source_id, note_title) ==
    {i \in DOMAIN conn.tx.source_notes :
        sql_eq(conn.tx.source_notes[i].note_title, note_title)}

(***************************************************************************)
(* LiteratureDatabase.add_note                                             *)
(***************************************************************************)
\* SELECT 1 FROM source_notes WHERE source_id = ? AND note_title = ?
sql_select_note(conn, source_id, note_title) ==
    {i \in DOMAIN conn.tx.source_notes :
        /\ conn.tx.source_notes[i].source_id = source_id
        /\ sql_eq(conn.tx.source_notes[i].note_title, note_title)}

\* An INSERT into a source_notes table that has no primary key.
sql_insert_note_without_key(conn, now, source_id, note_title, content) ==
    LET table == conn.tx.source_notes
        row == [source_id |-> source_id, note_title |-> note_title,
                content |-> content, created_at |-> now]
        rejected == note_title = NULL \/ content = NULL
    IN IF rejected THEN [error |-> TRUE, conn |-> conn]
       ELSE [error |-> FALSE,
             conn |-> [conn EXCEPT !.tx.source_notes = Append(@, row)]]

\* INSERT INTO source_notes (source_id, note_title, content) VALUES (?, ?, ?)
\* under PRIMARY KEY (source_id, note_title) and NOT NULL; the REFERENCES
\* clause is not enforced (no PRAGMA foreign_keys).
sql_insert_note(conn, now, source_id, note_title, content) ==
    LET table == conn.tx.source_notes
        row == [source_id |-> source_id, note_title |-> note_title,
                content |-> content, created_at |-> now]
        rejected == \/ \E i \in DOMAIN table :
                          /\ table[i].source_id = source_id
                          /\ sql_eq(table[i].note_title, note_title)
                    \/ note_title = NULL
                    \/ content = NULL
    IN IF rejected THEN [error |-> TRUE, conn |-> conn]
       ELSE [error |-> FALSE,
             conn |-> [conn EXCEPT !.tx.source_notes = Append(@, row)]]

\* An add_note without the SELECT that looks for the source.
add_note_to_any_id(db, now, fault, source_id, note_title, content) ==
    LET conn == sqlite_connect(db)
    IN IF sql_select_note(conn, source_id, note_title) # {}
       THEN Raise("ConflictError", note_title, sqlite_close(conn))
       ELSE
       LET ins == IF fault = "execute" THEN [error |-> TRUE, conn |-> conn]
                  ELSE sql_insert_note(conn, now, source_id, note_title, content)
       IN IF ins.error \/ fault = "commit"
          THEN Raise("StoreError", "Failed to add note", sqlite_close(ins.conn))
          ELSE Return(TRUE, sqlite_close(sqlite_commit(ins.conn)))

add_note(db, now, fault, source_id, note_title, content) ==
    LET conn == sqlite_connect(db)
    IN IF sql_select_source_by_id(conn, source_id) = {}
       THEN Raise("NotFoundError", source_id, sqlite_close(conn))
       ELSE IF sql_select_note(conn, source_id, note_title) # {}
       THEN Raise("ConflictError", note_title, sqlite_close(conn))
       ELSE
       LET ins == IF fault = "execute" THEN [error |-> TRUE, conn |-> conn]
                  ELSE sql_insert_note(conn, now, source_id, note_title, content)
       IN IF ins.error \/ fault = "commit"
          THEN Raise("StoreError", "Failed to add note", sqlite_close(ins.conn))
          ELSE Return(TRUE, sqlite_close(sqlite_commit(ins.conn)))


\* A rowcount that counts only the rows whose value the UPDATE changed.
sql_rowcount_changed(table, matched, column, value) ==
    Cardinality({i \in matched : table[i][column] # value})

(***************************************************************************)
(* LiteratureDatabase.update_status                                       *)
(***************************************************************************)
\* cursor.rowcount after an UPDATE: the rows the WHERE clause matched,
\* whether or not the value written differs from the value held.
sql_rowcount(table, matched, column, value) == Cardinality(matched)

\* An UPDATE without its WHERE clause: it writes every row, and counts the
\* rows of the id.
sql_update_status_of_all(conn, status, id) ==
    LET table == conn.tx.sources
        matched == {i \in DOMAIN table : table[i].id = id}
    IN [error |-> FALSE,
        rowcount |-> Cardinality(matched),
        conn |-> [conn EXCEPT !.tx.sources =
                    [i \in DOMAIN table |-> [table[i] EXCEPT !.status = status]]]]

\* A DELETE FROM sources WHERE id = ? in the place of the UPDATE.
sql_delete_source(conn, status, id) ==
    LET table == conn.tx.sources
        matched == {i \in DOMAIN table : table[i].id = id}
        first == IF matched = {} THEN Len(table) + 1 ELSE FirstOf(matched)
    IN [error |-> FALSE,
        rowcount |-> Cardinality(matched),
        conn |-> [conn EXCEPT !.tx.sources =
                    SubSeq(table, 1, first - 1) \o SubSeq(table, first + 1, Len(table))]]

\* An UPDATE that sets the title with the status.
sql_update_status_and_title(conn, status, id) ==
    LET table == conn.tx.sources
        matched == {i \in DOMAIN table : table[i].id = id}
    IN [error |-> FALSE,
        rowcount |-> Cardinality(matched),
        conn |-> [conn EXCEPT !.tx.sources =
                    [i \in DOMAIN table |->
                       IF i \in matched
                       THEN [table[i] EXCEPT !.status = status, !.title = status]
                       ELSE table[i]]]]

\* UPDATE sources SET status = ? WHERE id = ?   under CHECK(status)
sql_update_status(conn, status, id) ==
    LET table == conn.tx.sources
        matched == {i \in DOMAIN table : table[i].id = id}
        rejected == matched # {} /\ status # NULL /\ status \notin CHECK_sources_status
    IN IF rejected THEN [error |-> TRUE, rowcount |-> 0, conn |-> conn]
       ELSE [error |-> FALSE,
             rowcount |-> sql_rowcount(table, matched, "status", status),
             conn |-> [conn EXCEPT !.tx.sources =
                         [i \in DOMAIN table |->
                            IF i \in matched
                            THEN [table[i] EXCEPT !.status = status]
                            ELSE table[i]]]]

\* An update_status that looks for the source before it validates.
update_status_of_known_source(db, fault, source_id, new_status) ==
    LET conn == sqlite_connect(db)
    IN IF sql_select_source_by_id(conn, source_id) = {}
       THEN Raise("NotFoundError", source_id, sqlite_close(conn))
       ELSE IF ~validate_status(new_status)
       THEN Raise("ValidationError", <<"status", new_status>>, sqlite_close(conn))
       ELSE
       LET upd == IF fault = "execute"
                  THEN [error |-> TRUE, rowcount |-> 0, conn |-> conn]
                  ELSE sql_update_status(conn, new_status, source_id)
       IN IF upd.error \/ fault = "commit"
          THEN Raise("StoreError", "Failed to update status", sqlite_close(upd.conn))
          ELSE Return(TRUE, sqlite_close(sqlite_commit(upd.conn)))

update_status(db, fault, source_id, new_status) ==
    IF ~validate_status(new_status)
    THEN Raise("ValidationError", <<"status", new_status>>, db)
    ELSE
    LET conn == sqlite_connect(db)
        upd == IF fault = "execute" THEN [error |-> TRUE, rowcount |-> 0, conn |-> conn]
               ELSE sql_update_status(conn, new_status, source_id)
    IN IF upd.error
       THEN Raise("StoreError", "Failed to update status", sqlite_close(upd.conn))
       ELSE IF upd.rowcount = 0
       THEN Raise("NotFoundError", source_id, sqlite_close(upd.conn))
       ELSE IF fault = "commit"
       THEN Raise("StoreError", "Failed to update status", sqlite_close(upd.conn))
       ELSE Return(TRUE, sqlite_close(sqlite_commit(upd.conn)))


\* A check for the entity name among the links of all the sources.
sql_select_link_any_source(conn, source_id, entity_name) ==
    {i \in DOMAIN conn.tx.source_entity_links :
        sql_eq(conn.tx.source_entity_links[i].entity_name, entity_name)}

(***************************************************************************)
(* LiteratureDatabase.link_to_entity                                       *)
(***************************************************************************)
\* SELECT 1 FROM source_entity_links WHERE source_id = ? AND entity_name = ?
sql_select_link(conn, source_id, entity_name) ==
    {i \in DOMAIN conn.tx.source_entity_links :
        /\ conn.tx.source_entity_links[i].source_id = source_id
        /\ sql_eq(conn.tx.source_entity_links[i].entity_name, entity_name)}

\* INSERT INTO source_entity_links (source_id, entity_name, relation_type, notes)
\* VALUES (?, ?, ?, ?)  under PRIMARY KEY (source_id, entity_name) and
\* CHECK(relation_type), which a NULL passes.
sql_insert_link(conn, now, source_id, entity_name, relation_type, notes) ==
    LET table == conn.tx.source_entity_links
        row == [source_id |-> source_id, entity_name |-> entity_name,
                relation_type |-> relation_type, notes |-> notes,
                created_at |-> now]
        rejected == \/ \E i \in DOMAIN table :
                          /\ table[i].source_id = source_id
                          /\ sql_eq(table[i].entity_name, entity_name)
                    \/ /\ relation_type # NULL
                       /\ relation_type \notin CHECK_links_relation_type
    IN IF rejected THEN [error |-> TRUE, conn |-> conn]
       ELSE [error |-> FALSE,
             conn |-> [conn EXCEPT !.tx.source_entity_links = Append(@, row)]]

link_to_entity(db, now, fault, source_id, entity_name, relation_type, notes) ==
    IF ~validate_relation_type(relation_type)
    THEN Raise("ValidationError", <<"relation type", relation_type>>, db)
    ELSE
    LET conn == sqlite_connect(db)
    IN IF sql_select_source_by_id(conn, source_id) = {}
       THEN Raise("NotFoundError", source_id, sqlite_close(conn))
       ELSE IF sql_select_link(conn, source_id, entity_name) # {}
       THEN Raise("ConflictError", entity_name, sqlite_close(conn))
       ELSE
       LET ins == IF fault = "execute" THEN [error |-> TRUE, conn |-> conn]
                  ELSE sql_insert_link(conn, now, source_id, entity_name,
                                       relation_type, notes)
       IN IF ins.error \/ fault = "commit"
          THEN Raise("StoreError", "Failed to create entity link",
                     sqlite_close(ins.conn))
          ELSE Return(TRUE, sqlite_close(sqlite_commit(ins.conn)))

(***************************************************************************)
(* LiteratureDatabase.list_sources                                         *)
(***************************************************************************)
\* A truth test that takes every text, also the empty one, as true.
TruthyUnlessNone(text) == text # NULL

\* Python truth of an optional text argument: None and "" are false.
Truthy(text) == text # NULL /\ text # ""


\* A LIMIT that cuts nothing.
sql_limit_ignored(rows, n) == rows

\* LIMIT ? : the first n rows; a negative n is no limit.
sql_limit(rows, n) ==
    IF n < 0 \/ n >= Len(rows) THEN rows ELSE SubSeq(rows, 1, n)

\* SELECT id, title, type, status, created_at FROM sources
\* [WHERE type = ? [AND status = ?]] ORDER BY created_at DESC LIMIT ?
\* `by_type` and `by_status` tell which conditions the query text has.
sql_select_sources(conn, by_type, type, by_status, status, limit) ==
    LET table == conn.tx.sources
        rows == {i \in DOMAIN table :
                    /\ by_type => sql_eq(table[i].type, type)
                    /\ by_status => sql_eq(table[i].status, status)}
    IN {sql_limit([i \in DOMAIN f |-> table[f[i]]], limit) :
          f \in Arrangements(table, rows, TRUE)}

list_sources(db, source_type, status, limit) ==
    IF Truthy(source_type) /\ ~validate_source_type(source_type)
    THEN {Raise("ValidationError", <<"source type", source_type>>, db)}
    ELSE IF Truthy(status) /\ ~validate_status(status)
    THEN {Raise("ValidationError", <<"status", status>>, db)}
    ELSE
    LET conn == sqlite_connect(db)
    IN {Return([i \in DOMAIN rows |->
                  [id |-> rows[i].id, title |-> rows[i].title,
                   type |-> rows[i].type, status |-> rows[i].status,
                   created_at |-> rows[i].created_at]],
               sqlite_close(conn)) :
          rows \in sql_select_sources(conn, Truthy(source_type), source_type,
                                      Truthy(status), status, limit)}

(***************************************************************************)
(* LiteratureDatabase.get_database_stats                                   *)
(***************************************************************************)
\* SELECT <column>, COUNT(DISTINCT <column>) ... GROUP BY <column>: every
\* group counts one.
sql_count_group_by_distinct(table, column) ==
    [v \in {table[i][column] : i \in DOMAIN table} |-> 1]

\* SELECT <column>, COUNT(*) FROM sources GROUP BY <column>, as the dict
\* the comprehension builds from the rows.
sql_count_group_by(table, column) ==
    [v \in {table[i][column] : i \in DOMAIN table} |->
        Cardinality({i \in DOMAIN table : table[i][column] = v})]

\* SELECT COUNT(*) FROM <table>
sql_count(table) == Len(table)

get_database_stats(db) ==
    LET conn == sqlite_connect(db)
    IN Return([sources_by_type |-> sql_count_group_by(conn.tx.sources, "type"),
               sources_by_status |-> sql_count_group_by(conn.tx.sources, "status"),
               total_sources |-> sql_count(conn.tx.sources),
               total_notes |-> sql_count(conn.tx.source_notes),
               total_entity_links |-> sql_count(conn.tx.source_entity_links)],
              sqlite_close(conn))

(***************************************************************************)
(* The state: the three tables of the store file and the store's clock;    *)
(* what db_path references, the LiteratureDatabase instance, the open      *)
(* connections, the call in progress and how the last call ended; the      *)
(* threads that call the instance at the same time; the last call of a     *)
(* helper of src/src/utils.py.                                             *)
(***************************************************************************)
VARIABLES sources, source_notes, source_entity_links, now,
          path, instance, connections, call, last, threads, util

vars == <<sources, source_notes, source_entity_links, now,
          path, instance, connections, call, last, threads, util>>

\* No thread besides the caller's.
NoThreads == <<>>

\* No helper has been called.
NoUtil == [fn |-> "none"]

\* No call is in progress.
Idle == [pc |-> "idle"]

\* How a call or a construction ended: the operation, what db_path
\* referenced, the number of connections it opened and what it raised.
Ended(op, found, opened, raised) ==
    [op |-> op, path |-> found, opened |-> opened, raised |-> raised]

\* The store file.
db == [sources |-> sources, source_notes |-> source_notes,
       source_entity_links |-> source_entity_links]

Rows(store) ==
    Len(store.sources) + Len(store.source_notes) + Len(store.source_entity_links)

\* uuid.uuid4(): an id that no stored source has. Ids are opaque, so the
\* model takes the first one not in use.
uuid4(store) == Len(store.sources) + 1

(***************************************************************************)
(* The inputs the calls of a behaviour are made with.                      *)
(***************************************************************************)
\* <<title, source_type, identifier_type, identifier_value>>: three
\* identities, a NULL title, and values outside the vocabularies.
AddSourceInputs ==
    { <<"Attention", "paper", "doi", "v1">>,
      <<"Attention", "book", "doi", "v1">>,
      <<"", "paper", "doi", "v2">>,
      <<NULL, "paper", "doi", "v1">>,
      <<"Attention", "podcast", "doi", "v1">>,
      <<"Attention", "paper", "ssn", "v1">>,
      <<"Attention", "podcast", "ssn", "v1">> }

\* Source ids a caller may pass: the stored ones, 0 that is never stored,
\* and the one the next add_source will return.
SourceIds(store) == 0..(Len(store.sources) + 1)

\* <<note_title, content>>
NoteInputs == { <<"Summary", "c1">>, <<"Critique", "c2">> }

\* The statuses written, one of them outside the vocabulary.
StatusInputs == {"reading", "completed", "done"}

\* <<entity_name, relation_type, notes>>
LinkInputs ==
    { <<"transformer", "introduces", "first">>,
      <<"attention", "discusses", NULL>>,
      <<"transformer", "invents", NULL>> }

\* <<source_type, status, limit>> of list_sources; NULL is an absent filter.
DEFAULT_LIMIT == 50
ListInputs ==
    { <<NULL, NULL, DEFAULT_LIMIT>>,
      <<"paper", NULL, DEFAULT_LIMIT>>,
      <<NULL, "unread", DEFAULT_LIMIT>>,
      <<"paper", "reading", 1>>,
      <<NULL, NULL, 0>>,
      <<"podcast", NULL, DEFAULT_LIMIT>>,
      <<NULL, "done", DEFAULT_LIMIT>>,
      <<"", "", DEFAULT_LIMIT>> }

(***************************************************************************)
(* The specification: the calls a single-threaded caller makes, one after  *)
(* the other, through an instance constructed on the store that            *)
(* create_database made.                                                   *)
(***************************************************************************)
Init ==
    /\ sources = create_database.sources
    /\ source_notes = create_database.source_notes
    /\ source_entity_links = create_database.source_entity_links
    /\ now = 0
    /\ path = "initialized"
    /\ instance = "initialized"
    /\ connections = 0
    /\ call = Idle
    /\ last = Ended("__init__", "initialized", 0, "none")
    /\ threads = NoThreads
    /\ util = NoUtil

\* The call leaves the store file as `r.db`.
Leaves(r) ==
    /\ sources' = r.db.sources
    /\ source_notes' = r.db.source_notes
    /\ source_entity_links' = r.db.source_entity_links
    /\ Rows(r.db) <= MaxRows
    /\ UNCHANGED <<path, instance, connections, call, last, threads, util>>

AddSource ==
    \E inp \in AddSourceInputs, fault \in Faults :
        /\ Leaves(add_source(db, now, uuid4(db), fault,
                             inp[1], inp[2], inp[3], inp[4]))
        /\ UNCHANGED now

FindSourceByIdentifier ==
    \E inp \in AddSourceInputs :
        /\ Leaves(find_source_by_identifier(db, inp[3], inp[4], inp[2]))
        /\ UNCHANGED now

GetSourceById ==
    \E source_id \in SourceIds(db) :
        \E r \in get_source_by_id(db, source_id) :
            /\ Leaves(r)
            /\ UNCHANGED now

AddNote ==
    \E source_id \in SourceIds(db), inp \in NoteInputs, fault \in Faults :
        /\ Leaves(add_note(db, now, fault, source_id, inp[1], inp[2]))
        /\ UNCHANGED now

UpdateStatus ==
    \E source_id \in SourceIds(db), new_status \in StatusInputs, fault \in Faults :
        /\ Leaves(update_status(db, fault, source_id, new_status))
        /\ UNCHANGED now

LinkToEntity ==
    \E source_id \in SourceIds(db), inp \in LinkInputs, fault \in Faults :
        /\ Leaves(link_to_entity(db, now, fault, source_id, inp[1], inp[2], inp[3]))
        /\ UNCHANGED now

ListSources ==
    \E inp \in ListInputs :
        \E r \in list_sources(db, inp[1], inp[2], inp[3]) :
            /\ Leaves(r)
            /\ UNCHANGED now

GetDatabaseStats ==
    /\ Leaves(get_database_stats(db))
    /\ UNCHANGED now

\* A second of the store's clock passes between two calls.
Tick ==
    /\ now < MaxClock
    /\ now' = now + 1
    /\ UNCHANGED <<sources, source_notes, source_entity_links>>
    /\ UNCHANGED <<path, instance, connections, call, last, threads, util>>

\* All the calls, within one second of the store's clock.
Next ==
    \/ AddSource
    \/ FindSourceByIdentifier
    \/ GetSourceById
    \/ AddNote
    \/ UpdateStatus
    \/ LinkToEntity
    \/ ListSources
    \/ GetDatabaseStats

Spec == Init /\ [][Next]_vars

\* The calls whose results depend on created_at, with the clock running.
NextClock ==
    \/ AddSource
    \/ GetSourceById
    \/ AddNote
    \/ ListSources
    \/ Tick

SpecClock == Init /\ [][NextClock]_vars

(***************************************************************************)
(* The life of a connection. A call is followed through the blocks         *)
(*     with get_db_connection(self.db_path) as conn: ...                   *)
(* it runs: get_db_connection raises DatabaseError when the file is not    *)
(* there, else connects and yields; when the block is left, by a return or *)
(* by an exception, its `finally` closes the connection. db_path may       *)
(* reference the initialized store, a file without the tables ("empty"),   *)
(* or nothing ("absent").                                                  *)
(***************************************************************************)

\* The operations whose first statement is inside try/except sqlite3.Error:
\* update_status executes its UPDATE inside the try; add_source (through
\* find_source_by_identifier), add_note and link_to_entity run a SELECT
\* before their try, and the four read operations have no try at all.
StatementsInTry == {"update_status"}

\* A call a caller may make: the operation, and the outcome and the store
\* the operation `r` gives on an initialized store.
Made(op, r) == [op |-> op, outcome |-> r.outcome, db |-> r.db]

\* The calls a caller may make on `store`.
StoreCalls(store) ==
    {Made("add_source",
          add_source(store, now, uuid4(store), fault, inp[1], inp[2], inp[3], inp[4])) :
        inp \in AddSourceInputs, fault \in Faults}
    \cup {Made("find_source_by_identifier",
               find_source_by_identifier(store, inp[3], inp[4], inp[2])) :
             inp \in AddSourceInputs}
    \cup UNION {{Made("get_source_by_id", r) : r \in get_source_by_id(store, source_id)} :
                   source_id \in SourceIds(store)}
    \cup {Made("add_note", add_note(store, now, fault, source_id, inp[1], inp[2])) :
             source_id \in SourceIds(store), inp \in NoteInputs, fault \in Faults}
    \cup {Made("update_status", update_status(store, fault, source_id, new_status)) :
             source_id \in SourceIds(store), new_status \in StatusInputs,
             fault \in Faults}
    \cup {Made("link_to_entity",
               link_to_entity(store, now, fault, source_id, inp[1], inp[2], inp[3])) :
             source_id \in SourceIds(store), inp \in LinkInputs, fault \in Faults}
    \cup UNION {{Made("list_sources", r) : r \in list_sources(store, inp[1], inp[2], inp[3])} :
                   inp \in ListInputs}
    \cup {Made("get_database_stats", get_database_stats(store))}

\* How control leaves the block the call `c` is in: "return", the
\* "DatabaseError" the block raises, or the "sqlite3.Error" of a statement
\* on a file without the tables, which only a try around it turns into a
\* DatabaseError. The first block of add_source is the one of
\* find_source_by_identifier, which returns the row or None.
BlockOutcome(c, found) ==
    IF found = "empty"
    THEN IF c.op \in StatementsInTry THEN "DatabaseError" ELSE "sqlite3.Error"
    ELSE IF c.op = "add_source" /\ c.block = 1 THEN "return"
    ELSE IF c.outcome = "ok" THEN "return" ELSE "DatabaseError"

\* A close on the normal exit of the block only.
get_db_connection_close_on_return(open, outcome) ==
    IF outcome = "return" THEN open - 1 ELSE open

\* get_db_connection, `finally: conn.close()`: the connections left open
\* when the block is left with `outcome`.
get_db_connection_close(open, outcome) == open - 1

InitStore ==
    /\ sources = create_database.sources
    /\ source_notes = create_database.source_notes
    /\ source_entity_links = create_database.source_entity_links
    /\ now = 0
    /\ path \in {"initialized", "empty", "absent"}
    /\ instance = "none"
    /\ connections = 0
    /\ call = Idle
    /\ last = Ended("none", "absent", 0, "none")
    /\ threads = NoThreads
    /\ util = NoUtil

\* The call in progress ends: it raised `raised` or returned ("none"), and
\* an initialized store is left as the operation leaves it.
Finish(raised, opened) ==
    /\ call' = Idle
    /\ last' = Ended(call.op, path, opened, raised)
    /\ IF path = "initialized" /\ raised # "sqlite3.Error"
       THEN /\ sources' = call.db.sources
            /\ source_notes' = call.db.source_notes
            /\ source_entity_links' = call.db.source_entity_links
       ELSE UNCHANGED <<sources, source_notes, source_entity_links>>

\* LiteratureDatabase(db_path)
Construct ==
    /\ instance = "none"
    /\ call = Idle
    /\ IF path = "absent"
       THEN /\ last' = Ended("__init__", path, 0, "DatabaseError")
            /\ UNCHANGED instance
       ELSE /\ last' = Ended("__init__", path, 0, "none")
            /\ instance' = path
    /\ UNCHANGED <<sources, source_notes, source_entity_links, now,
                   path, connections, call, threads, util>>

\* The file is removed after the construction, between two calls.
RemoveFile ==
    /\ instance # "none"
    /\ call = Idle
    /\ path # "absent"
    /\ path' = "absent"
    /\ sources' = <<>>
    /\ source_notes' = <<>>
    /\ source_entity_links' = <<>>
    /\ UNCHANGED <<now, instance, connections, call, last, threads, util>>

\* A method of the instance is called. The validations come before any
\* `with` block: a call that fails one ends here.
Begin ==
    /\ instance # "none"
    /\ call = Idle
    /\ \E c \in StoreCalls(db) :
          /\ Rows(c.db) <= MaxStoreRows
          /\ IF c.outcome = "ValidationError"
             THEN /\ last' = Ended(c.op, path, 0, "DatabaseError")
                  /\ UNCHANGED call
             ELSE /\ call' = [pc |-> "enter", op |-> c.op, block |-> 1, opened |-> 0,
                              outcome |-> c.outcome, db |-> c.db]
                  /\ UNCHANGED last
    /\ UNCHANGED <<sources, source_notes, source_entity_links, now,
                   path, instance, connections, threads, util>>

\* get_db_connection up to its yield.
Enter ==
    /\ call.pc = "enter"
    /\ IF path = "absent"
       THEN /\ Finish("DatabaseError", call.opened)
            /\ UNCHANGED connections
       ELSE /\ connections' = connections + 1
            /\ call' = [call EXCEPT !.pc = "inside", !.opened = @ + 1]
            /\ UNCHANGED <<sources, source_notes, source_entity_links, last>>
    /\ UNCHANGED <<now, path, instance, threads, util>>

\* The block runs and is left; get_db_connection resumes in its finally.
\* add_source goes on to its own block when find_source_by_identifier
\* returned None; every other call ends.
Exit ==
    /\ call.pc = "inside"
    /\ LET outcome == BlockOutcome(call, path)
       IN /\ connections' = get_db_connection_close(connections, outcome)
          /\ IF /\ outcome = "return"
                /\ call.op = "add_source"
                /\ call.block = 1
                /\ call.outcome # "ConflictError"
             THEN /\ call' = [call EXCEPT !.pc = "enter", !.block = 2]
                  /\ UNCHANGED <<sources, source_notes, source_entity_links, last>>
             ELSE Finish(IF outcome = "sqlite3.Error" THEN "sqlite3.Error"
                         ELSE IF call.outcome = "ok" THEN "none"
                         ELSE "DatabaseError",
                         call.opened)
    /\ UNCHANGED <<now, path, instance, threads, util>>

NextStore ==
    \/ Construct
    \/ RemoveFile
    \/ Begin
    \/ Enter
    \/ Exit

SpecStore == InitStore /\ [][NextStore]_vars

(***************************************************************************)
(* The values the properties below quantify over. They are wider than the  *)
(* inputs of the behaviours: every property is stated of every call that   *)
(* could be made in a reachable state, not only of the calls made.         *)
(***************************************************************************)
Titles == {"Other", ""}
SourceTypes == {"paper", "book", "video"}
IdentifierTypes == {"doi", "url"}
IdentifierValues == {"v1", "v2"}
NoteTitles == {"Summary", "Critique", "summary"}
Contents == {"c1", "c2"}
EntityNames == {"transformer", "attention", "Transformer"}
LinkNotes == {NULL, "first", "second"}
OutsideVocabulary == {"", "done", "podcast", "ssn", "invents", "Paper", NULL}

StoredIds == {sources[i].id : i \in DOMAIN sources}

\* The identifiers mapping of a stored source.
Identifiers(row) == json_loads(row.identifiers)

\* The stored sources with the identity (type, identifier_type, identifier_value).
WithIdentity(store, source_type, identifier_type, identifier_value) ==
    {i \in DOMAIN store.sources :
        /\ store.sources[i].type = source_type
        /\ identifier_type \in DOMAIN Identifiers(store.sources[i])
        /\ Identifiers(store.sources[i])[identifier_type] = identifier_value}

(***************************************************************************)
(* C1. add_source with a valid type and identifier type fails with the     *)
(* conflict error, carrying the id of the stored source, exactly when a    *)
(* source with the same (type, identifier_type, identifier_value) is       *)
(* stored, whatever the title; when the store works, a second call with    *)
(* the same identity (and any title) after the first always has the        *)
(* conflict error and the store then holds exactly one such source.        *)
(***************************************************************************)
C1_DuplicateIdentityRejected ==
  [](\A source_type \in SourceTypes, identifier_type \in IdentifierTypes,
       identifier_value \in IdentifierValues, title \in Titles :
        LET same == WithIdentity(db, source_type, identifier_type, identifier_value)
            first == add_source(db, now, uuid4(db), "none", title,
                                source_type, identifier_type, identifier_value)
        IN /\ \A fault \in Faults :
                LET r == add_source(db, now, uuid4(db), fault, title,
                                    source_type, identifier_type, identifier_value)
                IN /\ r.outcome = "ConflictError" <=> same # {}
                   /\ r.outcome = "ConflictError" =>
                         \E i \in same : r.detail = sources[i].id
           /\ first.outcome = (IF same = {} THEN "ok" ELSE "ConflictError")
           /\ \A title2 \in Titles :
                LET second == add_source(first.db, now, uuid4(first.db), "none",
                                         title2, source_type, identifier_type,
                                         identifier_value)
                IN /\ second.outcome = "ConflictError"
                   /\ first.outcome = "ok" => second.detail = first.value
                   /\ Cardinality(WithIdentity(second.db, source_type,
                                    identifier_type, identifier_value)) = 1)

\* A paper and a book are stored under the same doi, and adding the paper
\* again under another title has the conflict error.
C1_Witness ==
    /\ WithIdentity(db, "paper", "doi", "v1") # {}
    /\ WithIdentity(db, "book", "doi", "v1") # {}
    /\ add_source(db, now, uuid4(db), "none", "Other", "paper", "doi", "v1").outcome
         = "ConflictError"

(***************************************************************************)
(* C2. In every reachable state no two stored sources have the same type   *)
(* and the same value under the same key of their identifiers mappings.    *)
(***************************************************************************)
C2_IdentityUnique ==
  [](\A i, j \in DOMAIN sources :
        i # j /\ sources[i].type = sources[j].type =>
            \A k \in DOMAIN Identifiers(sources[i]) \cap DOMAIN Identifiers(sources[j]) :
                Identifiers(sources[i])[k] # Identifiers(sources[j])[k])

\* Three sources are stored: two of one type under one key, and two under
\* one key and value.
C2_Witness ==
    /\ Len(sources) = 3
    /\ \E i, j \in DOMAIN sources :
          /\ i # j
          /\ sources[i].type # sources[j].type
          /\ Identifiers(sources[i]) = Identifiers(sources[j])
    /\ \E i, j \in DOMAIN sources :
          /\ i # j
          /\ sources[i].type = sources[j].type
          /\ DOMAIN Identifiers(sources[i]) = DOMAIN Identifiers(sources[j])

(***************************************************************************)
(* C3. Round trip: whenever add_source succeeds, get_source_by_id of the   *)
(* id it returned gives the title and type passed, the identifiers mapping *)
(* {identifier_type: identifier_value}, status 'unread', no notes and no   *)
(* entity links.                                                           *)
(***************************************************************************)
C3_RoundTrip ==
  [](\A source_type \in SourceTypes, identifier_type \in IdentifierTypes,
       identifier_value \in IdentifierValues, title \in Titles :
        LET added == add_source(db, now, uuid4(db), "none", title,
                                source_type, identifier_type, identifier_value)
        IN added.outcome = "ok" =>
             \A got \in get_source_by_id(added.db, added.value) :
                /\ got.outcome = "ok"
                /\ got.value # None
                /\ got.value.id = added.value
                /\ got.value.title = title
                /\ got.value.type = source_type
                /\ got.value.identifiers = (identifier_type :> identifier_value)
                /\ got.value.status = "unread"
                /\ got.value.notes = <<>>
                /\ got.value.entity_links = <<>>)

\* The last source stored reads back as it was added, into a store that
\* holds notes and links of another source.
C3_Witness ==
    /\ Len(sources) = 2
    /\ Len(source_notes) > 0
    /\ Len(source_entity_links) > 0
    /\ \E got \in get_source_by_id(db, 2) :
          /\ got.value # None
          /\ got.value.title = ""
          /\ got.value.identifiers = ("doi" :> "v2")
          /\ got.value.status = "unread"
          /\ got.value.notes = <<>>
          /\ got.value.entity_links = <<>>

(***************************************************************************)
(* C4. Note titles are unique per source, not globally: add_note on a      *)
(* stored source has the conflict error exactly when that source has a     *)
(* note of that title, whatever the other sources hold, and then leaves    *)
(* the store (so the note's content) as it was; no source ever has two     *)
(* notes of one title.                                                     *)
(***************************************************************************)
HasNote(source_id, note_title) ==
    \E i \in DOMAIN source_notes :
        /\ source_notes[i].source_id = source_id
        /\ source_notes[i].note_title = note_title

C4_NoteTitleUniquePerSource ==
  [](/\ \A i, j \in DOMAIN source_notes :
          /\ source_notes[i].source_id = source_notes[j].source_id
          /\ source_notes[i].note_title = source_notes[j].note_title
          => i = j
     /\ \A source_id \in StoredIds, note_title \in NoteTitles,
           content \in Contents, fault \in Faults :
          LET r == add_note(db, now, fault, source_id, note_title, content)
          IN /\ r.outcome = "ConflictError" <=> HasNote(source_id, note_title)
             /\ r.outcome = "ConflictError" => r.db = db
             /\ ~HasNote(source_id, note_title) /\ fault = "none" =>
                   r.outcome = "ok")

\* Two sources each have a note "Summary", and a second "Summary" for the
\* first of them, with another content, has the conflict error.
C4_Witness ==
    /\ HasNote(1, "Summary")
    /\ HasNote(2, "Summary")
    /\ add_note(db, now, "none", 1, "Summary", "c2").outcome = "ConflictError"
    /\ \E i \in DOMAIN source_notes :
          source_notes[i].source_id = 1 /\ source_notes[i].content = "c1"

(***************************************************************************)
(* C5. A source links to an entity name at most once: link_to_entity on a  *)
(* stored source with a valid relation type has the conflict error exactly *)
(* when a link of that (source id, entity name) exists, whatever the new   *)
(* relation type and notes, and then leaves the store (so the link) as it  *)
(* was; links of other sources to the same entity play no part.            *)
(***************************************************************************)
RelationTypes == {"introduces", "discusses", "critiques"}

HasLink(source_id, entity_name) ==
    \E i \in DOMAIN source_entity_links :
        /\ source_entity_links[i].source_id = source_id
        /\ source_entity_links[i].entity_name = entity_name

C5_EntityLinkedOncePerSource ==
  [](/\ \A i, j \in DOMAIN source_entity_links :
          /\ source_entity_links[i].source_id = source_entity_links[j].source_id
          /\ source_entity_links[i].entity_name = source_entity_links[j].entity_name
          => i = j
     /\ \A source_id \in StoredIds, entity_name \in EntityNames,
           relation_type \in RelationTypes, notes \in LinkNotes, fault \in Faults :
          LET r == link_to_entity(db, now, fault, source_id, entity_name,
                                  relation_type, notes)
          IN /\ r.outcome = "ConflictError" <=> HasLink(source_id, entity_name)
             /\ r.outcome = "ConflictError" => r.db = db
             /\ ~HasLink(source_id, entity_name) /\ fault = "none" =>
                   r.outcome = "ok")

\* Two sources are linked to "transformer", and linking the first of them
\* to it again, with another relation type and other notes, has the
\* conflict error.
C5_Witness ==
    /\ HasLink(1, "transformer")
    /\ HasLink(2, "transformer")
    /\ link_to_entity(db, now, "none", 1, "transformer", "critiques", "second").outcome
         = "ConflictError"
    /\ \E i \in DOMAIN source_entity_links :
          /\ source_entity_links[i].source_id = 1
          /\ source_entity_links[i].relation_type = "introduces"
          /\ source_entity_links[i].notes = "first"

(***************************************************************************)
(* C6. Status transitions are unrestricted: for every stored source and    *)
(* all statuses s1, s2 of the vocabulary (equal or not, equal to the       *)
(* current status or not), update_status to s1 and then to s2 both         *)
(* succeed when the store works, and get_source_by_id then reports s2.     *)
(***************************************************************************)
C6_StatusTransitionsUnrestricted ==
  [](\A source_id \in StoredIds, s1 \in VALID_STATUS_VALUES, s2 \in VALID_STATUS_VALUES :
        LET r1 == update_status(db, "none", source_id, s1)
            r2 == update_status(r1.db, "none", source_id, s2)
        IN /\ r1.outcome = "ok"
           /\ r2.outcome = "ok"
           /\ \A got \in get_source_by_id(r2.db, source_id) :
                 got.value # None /\ got.value.status = s2)

\* A source has been moved to 'completed', another to 'reading', and
\* writing 'completed' over 'completed' succeeds.
C6_Witness ==
    /\ \E i \in DOMAIN sources : sources[i].status = "reading"
    /\ \E i \in DOMAIN sources :
          /\ sources[i].status = "completed"
          /\ update_status(db, "none", sources[i].id, "completed").outcome = "ok"

(***************************************************************************)
(* C7. Vocabulary: every stored source has one of the five types and one   *)
(* of the four statuses, every key of a stored identifiers object is one   *)
(* of the five identifier types, every stored link has one of the six      *)
(* relation types; add_source, update_status and link_to_entity reject a   *)
(* value outside the vocabulary they check and store nothing.              *)
(***************************************************************************)
Rejected(r) == r.outcome = "ValidationError" /\ r.db = db

C7_VocabularyClosed ==
  [](/\ \A i \in DOMAIN sources :
          /\ sources[i].type \in {"paper", "webpage", "book", "video", "blog"}
          /\ sources[i].status \in {"unread", "reading", "completed", "archived"}
          /\ DOMAIN Identifiers(sources[i]) \subseteq
                {"semantic_scholar", "arxiv", "doi", "isbn", "url"}
     /\ \A i \in DOMAIN source_entity_links :
          source_entity_links[i].relation_type \in
             {"discusses", "introduces", "extends", "evaluates", "applies", "critiques"}
     /\ \A outside \in OutsideVocabulary, fault \in Faults :
          /\ \A identifier_value \in IdentifierValues :
                /\ Rejected(add_source(db, now, uuid4(db), fault, "Other", outside,
                                       "doi", identifier_value))
                /\ Rejected(add_source(db, now, uuid4(db), fault, "Other", "paper",
                                       outside, identifier_value))
          /\ \A source_id \in SourceIds(db) :
                /\ Rejected(update_status(db, fault, source_id, outside))
                /\ Rejected(link_to_entity(db, now, fault, source_id, "attention",
                                           outside, NULL)))

\* Sources of two types, moved to two statuses, with links of two relation
\* types are stored, and a source of type 'podcast', a source identified by
\* 'ssn', the status 'done' and the relation 'invents' are all refused.
C7_Witness ==
    /\ {"paper", "book"} \subseteq {sources[i].type : i \in DOMAIN sources}
    /\ {"reading", "completed"} \subseteq {sources[i].status : i \in DOMAIN sources}
    /\ {"introduces", "discusses"} \subseteq
          {source_entity_links[i].relation_type : i \in DOMAIN source_entity_links}
    /\ Rejected(add_source(db, now, uuid4(db), "none", "Other", "podcast", "doi", "v2"))
    /\ Rejected(add_source(db, now, uuid4(db), "none", "Other", "paper", "ssn", "v2"))
    /\ Rejected(update_status(db, "none", 1, "done"))
    /\ Rejected(link_to_entity(db, now, "none", 1, "attention", "invents", NULL))

(***************************************************************************)
(* C8. Failure atomicity: a call of add_source, add_note, update_status or *)
(* link_to_entity that fails, be it on validation, on a conflict, on an    *)
(* unknown source or on a write or commit the store refuses, leaves the    *)
(* three tables exactly as they were.                                      *)
(***************************************************************************)
Atomic(r) == r.outcome # "ok" => r.db = db

C8_FailureAtomicity ==
  [](\A fault \in Faults :
        /\ \A title \in {"Other", NULL}, source_type \in {"paper", "video", "podcast"},
              identifier_type \in {"doi", "ssn"}, identifier_value \in IdentifierValues :
              Atomic(add_source(db, now, uuid4(db), fault, title, source_type,
                                identifier_type, identifier_value))
        /\ \A source_id \in SourceIds(db) :
              /\ \A note_title \in {"Summary", "summary"}, content \in {"c2", NULL} :
                    Atomic(add_note(db, now, fault, source_id, note_title, content))
              /\ \A new_status \in VALID_STATUS_VALUES \cup {"done"} :
                    Atomic(update_status(db, fault, source_id, new_status))
              /\ \A entity_name \in {"transformer", "Transformer"},
                    relation_type \in {"critiques", "invents"} :
                    Atomic(link_to_entity(db, now, fault, source_id, entity_name,
                                          relation_type, "second")))

\* With rows in all three tables, a call of each operation fails on a
\* refused commit, a note without content fails on the NOT NULL
\* constraint, and a call fails on each of validation, conflict and
\* unknown source.
C8_Witness ==
    /\ StoredIds = {1, 2}
    /\ source_notes # <<>>
    /\ source_entity_links # <<>>
    /\ add_source(db, now, uuid4(db), "commit", "Other", "video", "doi", "v1").outcome
         = "StoreError"
    /\ add_note(db, now, "commit", 2, "summary", "c2").outcome = "StoreError"
    /\ add_note(db, now, "none", 2, "summary", NULL).outcome = "StoreError"
    /\ update_status(db, "commit", 1, "archived").outcome = "StoreError"
    /\ link_to_entity(db, now, "execute", 1, "Transformer", "critiques", "second").outcome
         = "StoreError"
    /\ add_source(db, now, uuid4(db), "none", "Other", "podcast", "doi", "v1").outcome
         = "ValidationError"
    /\ add_source(db, now, uuid4(db), "none", "Other", "paper", "doi", "v1").outcome
         = "ConflictError"
    /\ update_status(db, "none", 3, "archived").outcome = "NotFoundError"

(***************************************************************************)
(* C9. Unknown source: for an id that no stored source has, add_note,      *)
(* update_status with a valid status and link_to_entity with a valid       *)
(* relation type each fail with the not-found error that carries the id,   *)
(* and no note, link or status is created or changed.  (update_status runs *)
(* its UPDATE before it can tell; the case where the store refuses that    *)
(* statement is left to C8.)                                               *)
(***************************************************************************)
NotFound(r, source_id) ==
    r.outcome = "NotFoundError" /\ r.detail = source_id /\ r.db = db

C9_UnknownSourceNotFound ==
  [](\A source_id \in SourceIds(db) \ StoredIds :
        /\ \A note_title \in NoteTitles, content \in Contents, fault \in Faults :
              NotFound(add_note(db, now, fault, source_id, note_title, content),
                       source_id)
        /\ \A new_status \in VALID_STATUS_VALUES, fault \in {"none", "commit"} :
              NotFound(update_status(db, fault, source_id, new_status), source_id)
        /\ \A entity_name \in EntityNames, relation_type \in VALID_RELATION_TYPES,
              fault \in Faults :
              NotFound(link_to_entity(db, now, fault, source_id, entity_name,
                                      relation_type, NULL), source_id))

\* Sources, notes and links are stored, and the three operations on the id
\* after the last stored one are refused as not found.
C9_Witness ==
    /\ StoredIds = {1, 2}
    /\ source_notes # <<>>
    /\ source_entity_links # <<>>
    /\ NotFound(add_note(db, now, "none", 3, "Summary", "c1"), 3)
    /\ NotFound(update_status(db, "none", 3, "reading"), 3)
    /\ NotFound(link_to_entity(db, now, "none", 3, "transformer", "introduces", NULL), 3)

(***************************************************************************)
(* C10. list_sources with a type filter, a status filter, both or neither  *)
(* returns only sources that match every filter given, none of them        *)
(* twice, exactly min(limit, number of matches) of them for a limit >= 0,  *)
(* and exactly the set of matches when the limit is at least their number. *)
(***************************************************************************)
Matches(source_type, status) ==
    {i \in DOMAIN sources :
        /\ source_type # NULL => sources[i].type = source_type
        /\ status # NULL => sources[i].status = status}

Min(a, b) == IF a <= b THEN a ELSE b

C10_ListSourcesFilters ==
  [](\A source_type \in {NULL} \cup SourceTypes,
        status \in {NULL} \cup VALID_STATUS_VALUES,
        limit \in (0 .. Len(sources)) \cup {DEFAULT_LIMIT} :
        LET matches == Matches(source_type, status)
        IN \A r \in list_sources(db, source_type, status, limit) :
              /\ r.outcome = "ok"
              /\ \A k \in DOMAIN r.value :
                    \E i \in matches :
                       /\ r.value[k].id = sources[i].id
                       /\ r.value[k].type = sources[i].type
                       /\ r.value[k].status = sources[i].status
              /\ \A k, l \in DOMAIN r.value :
                    r.value[k].id = r.value[l].id => k = l
              /\ Len(r.value) = Min(limit, Cardinality(matches))
              /\ limit >= Cardinality(matches) =>
                    {r.value[k].id : k \in DOMAIN r.value}
                       = {sources[i].id : i \in matches})

\* Of three stored sources two are papers, one of them being read; the
\* papers are listed one at a time under limit 1 and both under the default
\* limit, and the paper being read is the only answer to both filters.
C10_Witness ==
    /\ Len(sources) = 3
    /\ Cardinality(Matches("paper", NULL)) = 2
    /\ Cardinality(Matches("paper", "reading")) = 1
    /\ \A r \in list_sources(db, "paper", NULL, 1) : Len(r.value) = 1
    /\ \A r \in list_sources(db, "paper", NULL, DEFAULT_LIMIT) : Len(r.value) = 2
    /\ \A r \in list_sources(db, "paper", "reading", DEFAULT_LIMIT) :
          Len(r.value) = 1 /\ r.value[1].status = "reading"

(***************************************************************************)
(* C11. list_sources returns the sources newest first: of two returned     *)
(* sources the one that the later add_source call created comes first,     *)
(* and the sources a limit keeps are the most recently created ones; also  *)
(* when sources were created within one second of the store's clock.       *)
(* Creation order is the order of the rows of the table.                   *)
(***************************************************************************)
RowOf(source_id) == CHOOSE i \in DOMAIN sources : sources[i].id = source_id

C11_ListSourcesNewestFirst ==
    \A source_type \in {NULL, "paper"},
       limit \in (0 .. Len(sources)) \cup {DEFAULT_LIMIT} :
       \A r \in list_sources(db, source_type, NULL, limit) :
          LET returned == {RowOf(r.value[k].id) : k \in DOMAIN r.value}
          IN /\ \A k, l \in DOMAIN r.value :
                   k < l => RowOf(r.value[k].id) > RowOf(r.value[l].id)
             /\ \A i \in Matches(source_type, NULL) \ returned :
                   \A j \in returned : j > i

(***************************************************************************)
(* C12, as claimed. list_sources fails with the validation error for every *)
(* supplied type filter outside the source types and for every supplied    *)
(* status filter outside the statuses, whatever the other filter is. A     *)
(* filter is supplied when it is not None.                                 *)
(***************************************************************************)
OtherTypeFilters == {NULL, "", "paper", "video", "podcast"}
OtherStatusFilters == {NULL, "", "unread", "completed", "done"}

C12_EverySuppliedFilterValidated ==
    \A outside \in OutsideVocabulary \ {NULL}, limit \in {0, DEFAULT_LIMIT} :
       /\ \A status \in OtherStatusFilters :
             \A r \in list_sources(db, outside, status, limit) : Rejected(r)
       /\ \A source_type \in OtherTypeFilters :
             \A r \in list_sources(db, source_type, outside, limit) : Rejected(r)

(***************************************************************************)
(* C12, amended. list_sources fails with the validation error for every    *)
(* non-empty type filter outside the source types and for every non-empty  *)
(* status filter outside the statuses, whatever the other filter is (also  *)
(* when the other filter is invalid, empty or absent); an empty string is  *)
(* taken as an absent filter: it is not validated and filters nothing.     *)
(***************************************************************************)
C12_NonEmptyFilterValidated ==
  [](\A limit \in {0, DEFAULT_LIMIT} :
        /\ \A outside \in OutsideVocabulary \ {NULL, ""} :
              /\ \A status \in OtherStatusFilters :
                    \A r \in list_sources(db, outside, status, limit) : Rejected(r)
              /\ \A source_type \in OtherTypeFilters :
                    \A r \in list_sources(db, source_type, outside, limit) : Rejected(r)
        /\ \A status \in {NULL} \cup VALID_STATUS_VALUES :
              list_sources(db, "", status, limit) = list_sources(db, NULL, status, limit)
        /\ \A source_type \in {NULL} \cup SourceTypes :
              list_sources(db, source_type, "", limit) = list_sources(db, source_type, NULL, limit))

\* With a paper and a book stored, an unknown type is refused next to a
\* valid status, an unknown status next to a valid type, both together are
\* refused, and two empty filters list both sources.
C12_Witness ==
    /\ {"paper", "book"} \subseteq {sources[i].type : i \in DOMAIN sources}
    /\ \A r \in list_sources(db, "podcast", "unread", DEFAULT_LIMIT) : Rejected(r)
    /\ \A r \in list_sources(db, "paper", "done", DEFAULT_LIMIT) : Rejected(r)
    /\ \A r \in list_sources(db, "podcast", "done", DEFAULT_LIMIT) : Rejected(r)
    /\ \A r \in list_sources(db, "", "", DEFAULT_LIMIT) :
          r.outcome = "ok" /\ Len(r.value) = Len(sources)

(***************************************************************************)
(* C13. Stats consistency: get_database_stats reports as totals the        *)
(* numbers of rows of the three tables; a successful add_source, add_note  *)
(* or link_to_entity raises its own total by one and no other, a failed    *)
(* call and update_status raise none (so the totals are the numbers of     *)
(* successful calls, in any order); sources_by_type and sources_by_status  *)
(* have exactly the types and statuses that some source holds as keys,     *)
(* each with the number of sources holding it, and each sums to            *)
(* total_sources.                                                          *)
(***************************************************************************)
RECURSIVE SumOf(_, _)
SumOf(counts, keys) ==
    IF keys = {} THEN 0
    ELSE LET k == CHOOSE x \in keys : TRUE
         IN counts[k] + SumOf(counts, keys \ {k})

Totals(store) ==
    LET stats == get_database_stats(store).value
    IN <<stats.total_sources, stats.total_notes, stats.total_entity_links>>

\* The totals after a call are the totals before it plus `gain` when it
\* succeeded, and the totals before it when it failed.
Counted(r, gain) ==
    LET before == Totals(db)
        after == Totals(r.db)
    IN IF r.outcome = "ok"
       THEN after = <<before[1] + gain[1], before[2] + gain[2], before[3] + gain[3]>>
       ELSE after = before

C13_StatsConsistent ==
  [](LET r == get_database_stats(db)
         stats == r.value
     IN /\ r.outcome = "ok" /\ r.db = db
        /\ stats.total_sources = Len(sources)
        /\ stats.total_notes = Len(source_notes)
        /\ stats.total_entity_links = Len(source_entity_links)
        /\ DOMAIN stats.sources_by_type = {sources[i].type : i \in DOMAIN sources}
        /\ DOMAIN stats.sources_by_status = {sources[i].status : i \in DOMAIN sources}
        /\ \A t \in DOMAIN stats.sources_by_type :
              stats.sources_by_type[t] =
                 Cardinality({i \in DOMAIN sources : sources[i].type = t})
        /\ \A t \in DOMAIN stats.sources_by_status :
              stats.sources_by_status[t] =
                 Cardinality({i \in DOMAIN sources : sources[i].status = t})
        /\ SumOf(stats.sources_by_type, DOMAIN stats.sources_by_type)
              = stats.total_sources
        /\ SumOf(stats.sources_by_status, DOMAIN stats.sources_by_status)
              = stats.total_sources
        /\ \A fault \in Faults :
              /\ \A source_type \in {"paper", "video", "podcast"},
                    identifier_value \in IdentifierValues :
                    Counted(add_source(db, now, uuid4(db), fault, "Other", source_type,
                                       "doi", identifier_value), <<1, 0, 0>>)
              /\ \A source_id \in SourceIds(db) :
                    /\ \A note_title \in {"Summary", "summary"} :
                          Counted(add_note(db, now, fault, source_id, note_title, "c2"),
                                  <<0, 1, 0>>)
                    /\ \A new_status \in {"unread", "archived", "done"} :
                          Counted(update_status(db, fault, source_id, new_status),
                                  <<0, 0, 0>>)
                    /\ \A entity_name \in {"transformer", "Transformer"} :
                          Counted(link_to_entity(db, now, fault, source_id, entity_name,
                                                 "critiques", NULL), <<0, 0, 1>>))

\* Two papers, one of them being read, one note and one link: the totals
\* are 2, 1 and 1, 'paper' counts 2, 'unread' and 'reading' count 1 each.
C13_Witness ==
    LET stats == get_database_stats(db).value
    IN /\ <<stats.total_sources, stats.total_notes, stats.total_entity_links>>
            = <<2, 1, 1>>
       /\ stats.sources_by_type = ("paper" :> 2)
       /\ stats.sources_by_status = ("unread" :> 1) @@ ("reading" :> 1)

(***************************************************************************)
(* C14. find_source_by_identifier(identifier_type, identifier_value, type) *)
(* returns a stored source of that type that holds that value under that   *)
(* key, in its projection (id, title, type, identifiers, status), when     *)
(* there is one; returns None, without raising, when there is none (also   *)
(* when a source differs in the type only, or the key is no identifier     *)
(* type at all); never changes the store; and after add_source returned    *)
(* an id for an identity it returns the source of that id and title.       *)
(***************************************************************************)
Projection(row) ==
    [id |-> row.id, title |-> row.title, type |-> row.type,
     identifiers |-> Identifiers(row), status |-> row.status]

NotesOf(store, source_id) ==
    {[title |-> store.source_notes[i].note_title,
      content |-> store.source_notes[i].content,
      created_at |-> store.source_notes[i].created_at] :
        i \in {j \in DOMAIN store.source_notes :
                  store.source_notes[j].source_id = source_id}}

LinksOf(store, source_id) ==
    {[entity_name |-> store.source_entity_links[i].entity_name,
      relation_type |-> store.source_entity_links[i].relation_type,
      notes |-> store.source_entity_links[i].notes,
      created_at |-> store.source_entity_links[i].created_at] :
        i \in {j \in DOMAIN store.source_entity_links :
                  store.source_entity_links[j].source_id = source_id}}

\* `value` is the aggregate of the source `source_id` of `store`.
AggregateOf(store, source_id, value) ==
    LET row == store.sources[CHOOSE i \in DOMAIN store.sources :
                                store.sources[i].id = source_id]
    IN /\ value # None
       /\ value.id = source_id
       /\ value.title = row.title
       /\ value.type = row.type
       /\ value.identifiers = Identifiers(row)
       /\ value.status = row.status
       /\ value.created_at = row.created_at
       /\ {value.notes[k] : k \in DOMAIN value.notes} = NotesOf(store, source_id)
       /\ Len(value.notes) = Cardinality(NotesOf(store, source_id))
       /\ {value.entity_links[k] : k \in DOMAIN value.entity_links}
             = LinksOf(store, source_id)
       /\ Len(value.entity_links) = Cardinality(LinksOf(store, source_id))

C15_GetSourceById ==
  [](\A source_id \in SourceIds(db) :
        /\ \A got \in get_source_by_id(db, source_id) :
              /\ got.outcome = "ok"
              /\ got.db = db
              /\ source_id \notin StoredIds => got.value = None
              /\ source_id \in StoredIds => AggregateOf(db, source_id, got.value)
        /\ source_id \in StoredIds =>
              /\ \A note_title \in NoteTitles, content \in Contents :
                    LET r == add_note(db, now, "none", source_id, note_title, content)
                    IN r.outcome = "ok" =>
                          \A got \in get_source_by_id(r.db, source_id) :
                             /\ AggregateOf(r.db, source_id, got.value)
                             /\ \E k \in DOMAIN got.value.notes :
                                   /\ got.value.notes[k].title = note_title
                                   /\ got.value.notes[k].content = content
              /\ \A entity_name \in EntityNames, relation_type \in RelationTypes,
                    notes \in {NULL, "second"} :
                    LET r == link_to_entity(db, now, "none", source_id, entity_name,
                                            relation_type, notes)
                    IN r.outcome = "ok" =>
                          \A got \in get_source_by_id(r.db, source_id) :
                             /\ AggregateOf(r.db, source_id, got.value)
                             /\ \E k \in DOMAIN got.value.entity_links :
                                   /\ got.value.entity_links[k].entity_name = entity_name
                                   /\ got.value.entity_links[k].relation_type = relation_type
                                   /\ got.value.entity_links[k].notes = notes)

\* Of two sources the first has a note and no link, the second a link and
\* no note; each aggregate has its own and not the other's, and the ids 0
\* and 3 give None.
C15_Witness ==
    /\ StoredIds = {1, 2}
    /\ \A got \in get_source_by_id(db, 1) :
          /\ Len(got.value.notes) = 1 /\ got.value.entity_links = <<>>
          /\ got.value.notes[1].title = "Summary" /\ got.value.notes[1].content = "c1"
    /\ \A got \in get_source_by_id(db, 2) :
          /\ got.value.notes = <<>> /\ Len(got.value.entity_links) = 1
          /\ got.value.entity_links[1].entity_name = "transformer"
          /\ got.value.entity_links[1].relation_type = "introduces"
          /\ got.value.entity_links[1].notes = "first"
    /\ \A got \in get_source_by_id(db, 0) \cup get_source_by_id(db, 3) :
          got.value = None

(***************************************************************************)
(* C16. No connection outlives a call: every connection an operation opens *)
(* is closed when the call ends, however it ends (a return, a validation,  *)
(* conflict or not-found error, a store error, an engine error), so        *)
(* between calls no connection is open; and a call never holds more than   *)
(* one connection at a time.                                               *)
(***************************************************************************)
C16_NoConnectionOutlivesCall ==
  [](/\ connections \in {0, 1}
     /\ call = Idle => connections = 0
     /\ call # Idle => connections = (IF call.pc = "inside" THEN 1 ELSE 0))

\* An add_source has ended with an error after it opened two connections,
\* the one of find_source_by_identifier and its own, and none is open.
C16_Witness ==
    /\ call = Idle
    /\ last.op = "add_source"
    /\ last.opened = 2
    /\ last.raised = "DatabaseError"
    /\ connections = 0

(***************************************************************************)
(* C17. Store unavailability is surfaced uniformly: when db_path           *)
(* references no file (removed after the construction) or a file without   *)
(* the tables, every call of a public operation ends with the access       *)
(* layer's DatabaseError, never with an exception of sqlite3.              *)
(***************************************************************************)
C17_StoreUnavailableSurfacedUniformly ==
    /\ last.raised # "sqlite3.Error"
    /\ (call = Idle /\ last.op \notin {"none", "__init__"}
          /\ last.path \in {"absent", "empty"}) =>
          last.raised = "DatabaseError"

(***************************************************************************)
(* C18. Construction fails fast: LiteratureDatabase(db_path) raises when   *)
(* the file does not exist and when it exists without the tables, so an    *)
(* instance is never constructed on an uninitialized store.                *)
(***************************************************************************)
C18_ConstructionFailsFast ==
    /\ instance \in {"none", "initialized"}
    /\ (last.op = "__init__" /\ last.path # "initialized") =>
          last.raised = "DatabaseError"

(***************************************************************************)
(* C19. Every stored source has a non-empty title: add_source with an      *)
(* empty or missing title fails with the validation error before any       *)
(* write, and no row is inserted.                                          *)
(***************************************************************************)
C19_TitleNonEmpty ==
    /\ \A i \in DOMAIN sources : sources[i].title \notin {"", NULL}
    /\ \A title \in {"", NULL}, source_type \in SourceTypes,
          identifier_value \in IdentifierValues, fault \in Faults :
          Rejected(add_source(db, now, uuid4(db), fault, title, source_type,
                              "doi", identifier_value))

(***************************************************************************)
(* C20. Notes are listed newest first: of two notes of a source, the one   *)
(* that the later add_note call added comes first in the notes that        *)
(* get_source_by_id returns, also when both were added within one second   *)
(* of the store's clock. The order of the calls is the order of the rows   *)
(* of the table.                                                           *)
(***************************************************************************)
NoteRowOf(source_id, note_title) ==
    CHOOSE i \in DOMAIN source_notes :
        /\ source_notes[i].source_id = source_id
        /\ source_notes[i].note_title = note_title

C20_NotesNewestFirst ==
    \A source_id \in StoredIds :
       \A got \in get_source_by_id(db, source_id) :
          \A k, l \in DOMAIN got.value.notes :
             k < l => NoteRowOf(source_id, got.value.notes[k].title)
                         > NoteRowOf(source_id, got.value.notes[l].title)

(***************************************************************************)
(* src/src/utils.py: the helpers that work on values already fetched. A    *)
(* Python str is the sequence of its characters.                           *)
(***************************************************************************)
\* The sources of one call of search_sources_by_title.
MaxSources == 4

\* str.lower(), on the characters the titles and queries are written in.
LowerCase == ("A" :> "a") @@ ("B" :> "b")

str_lower(s) == [i \in DOMAIN s |-> IF s[i] \in DOMAIN LowerCase THEN LowerCase[s[i]] ELSE s[i]]

\* needle in hay
str_in(needle, hay) ==
    \E i \in 0..(Len(hay) - Len(needle)) : SubSeq(hay, i + 1, i + Len(needle)) = needle

\* str.split(): the maximal runs of characters other than whitespace.
RECURSIVE str_split(_)
str_split(s) ==
    IF s = <<>> THEN <<>>
    ELSE IF Head(s) = " " THEN str_split(Tail(s))
    ELSE LET n == CHOOSE k \in 1..Len(s) :
                     /\ \A i \in 1..k : s[i] # " "
                     /\ k = Len(s) \/ s[k + 1] = " "
         IN <<SubSeq(s, 1, n)>> \o str_split(SubSeq(s, n + 1, Len(s)))

\* The score the loop of search_sources_by_title gives a title, 0 when it
\* appends nothing.
score(query_lower, title_lower) ==
    IF query_lower = title_lower THEN 100
    ELSE IF str_in(query_lower, title_lower) THEN 50
    ELSE IF \E w \in DOMAIN str_split(query_lower) :
               str_in(str_split(query_lower)[w], title_lower)
    THEN 25
    ELSE 0

\* An insertion that puts the pair before the pairs of the same score.
insert_before_equal(sorted, pair) ==
    LET before == {i \in DOMAIN sorted : sorted[i][2] > pair[2]}
        n == Cardinality(before)
    IN SubSeq(sorted, 1, n) \o <<pair>> \o SubSeq(sorted, n + 1, Len(sorted))

\* list.sort(key=lambda x: x[1], reverse=True) is stable: a pair goes after
\* the pairs already placed whose score is not lower.
insert_after_equal(sorted, pair) ==
    LET before == {i \in DOMAIN sorted : sorted[i][2] >= pair[2]}
        n == Cardinality(before)
    IN SubSeq(sorted, 1, n) \o <<pair>> \o SubSeq(sorted, n + 1, Len(sorted))

RECURSIVE list_sort_by_score_desc(_)
list_sort_by_score_desc(matches) ==
    IF matches = <<>> THEN <<>>
    ELSE insert_after_equal(list_sort_by_score_desc(SubSeq(matches, 1, Len(matches) - 1)),
                            matches[Len(matches)])

\* The loop over the sources: the <<source, score>> pairs of the sources
\* that match, in input order.
RECURSIVE search_matches(_, _)
search_matches(source_list, query_lower) ==
    IF source_list = <<>> THEN <<>>
    ELSE LET source == source_list[Len(source_list)]
             s == score(query_lower, str_lower(source.title))
             rest == search_matches(SubSeq(source_list, 1, Len(source_list) - 1),
                                    query_lower)
         IN IF s > 0 THEN Append(rest, <<source, s>>) ELSE rest

search_sources_by_title(source_list, query) ==
    LET matches == list_sort_by_score_desc(search_matches(source_list, str_lower(query)))
    IN [i \in DOMAIN matches |-> matches[i][1]]


\* url_pattern.match(url) is not None, for the identifier values of the
\* model: the ones the pattern matches are the ones made of a scheme http
\* or https (in any case), a domain name with a top-level domain, localhost
\* or a dotted quad, an optional port, and an optional path without
\* whitespace.
UrlPatternMatches ==
    {"https://example.com", "HTTP://localhost:8080/path", "http://127.0.0.1"}

validate_url(url) == url \in UrlPatternMatches

\* dict.get(key): None when the key is missing.
dict_get(data, key) == IF key \in DOMAIN data THEN data[key] ELSE NULL

required_fields == <<"title", "source_type", "identifier_type", "identifier_value">>

\* The loop over required_fields, up to the n-th: one error for each field
\* that is missing or false.
RECURSIVE missing_required(_, _)
missing_required(data, n) ==
    IF n = 0 THEN <<>>
    ELSE LET field == required_fields[n]
             errors == missing_required(data, n - 1)
         IN IF field \notin DOMAIN data \/ ~Truthy(data[field])
            THEN Append(errors, <<"Missing required field", field>>)
            ELSE errors

validate_input_data(data) ==
    LET missing == missing_required(data, Len(required_fields))
        typed == IF /\ "source_type" \in DOMAIN data
                    /\ data["source_type"] \notin VALID_SOURCE_TYPES
                 THEN Append(missing, <<"Invalid source type", data["source_type"]>>)
                 ELSE missing
        identified == IF /\ "identifier_type" \in DOMAIN data
                         /\ data["identifier_type"] \notin VALID_IDENTIFIER_TYPES
                      THEN Append(typed, <<"Invalid identifier type",
                                           data["identifier_type"]>>)
                      ELSE typed
    IN IF /\ dict_get(data, "identifier_type") = "url"
          /\ Truthy(dict_get(data, "identifier_value"))
          /\ ~validate_url(data["identifier_value"])
       THEN Append(identified, <<"Invalid URL format">>)
       ELSE identified

(***************************************************************************)
(* The inputs the helpers are called with.                                 *)
(***************************************************************************)
\* The titles "A b", "a b", "c a b", "Ab", "b", "d" and "".
SearchTitles ==
    { <<"A", " ", "b">>, <<"a", " ", "b">>, <<"c", " ", "a", " ", "b">>,
      <<"A", "b">>, <<"b">>, <<"d">>, <<>> }

\* The queries "a b", "AB", " b", "b d", "", " " and "x".
SearchQueries ==
    { <<"a", " ", "b">>, <<"A", "B">>, <<" ", "b">>, <<"b", " ", "d">>,
      <<>>, <<" ">>, <<"x">> }

\* The source summaries with the titles `titles`; the id is the place in
\* the input.
Summaries(titles) == [i \in DOMAIN titles |-> [id |-> i, title |-> titles[i]]]

SourceLists ==
    UNION {{Summaries(titles) : titles \in [1..n -> SearchTitles]} : n \in 0..MaxSources}

\* A field the bag does not have.
Missing == "<missing>"

\* What a caller may put under each field of the bag.
FieldValues ==
    [title |-> {"Attention", "", NULL, Missing},
     source_type |-> {"paper", "podcast", "", NULL, Missing},
     identifier_type |-> {"doi", "url", "ssn", "", NULL, Missing},
     identifier_value |-> {"10.1000/x", "https://example.com", "example.com",
                           "https://example.com/a b", "", NULL, Missing}]

FieldBags ==
    {[field \in {f \in DOMAIN FieldValues : choice[f] # Missing} |-> choice[field]] :
        choice \in {c \in [DOMAIN FieldValues -> UNION {FieldValues[f] : f \in DOMAIN FieldValues}] :
                       \A f \in DOMAIN FieldValues : c[f] \in FieldValues[f]}}

(***************************************************************************)
(* The specification of the helpers: they are pure and keep nothing from   *)
(* one call to the next, so a behaviour is one call; a call leaves the     *)
(* store alone.                                                            *)
(***************************************************************************)
SearchSourcesByTitle ==
    /\ util = NoUtil
    /\ \E source_list \in SourceLists, query \in SearchQueries :
          util' = [fn |-> "search_sources_by_title",
                   sources |-> source_list, query |-> query,
                   returned |-> search_sources_by_title(source_list, query)]
    /\ UNCHANGED <<sources, source_notes, source_entity_links, now,
                   path, instance, connections, call, last, threads>>

ValidateInputData ==
    /\ util = NoUtil
    /\ \E data \in FieldBags :
          util' = [fn |-> "validate_input_data", data |-> data,
                   returned |-> validate_input_data(data)]
    /\ UNCHANGED <<sources, source_notes, source_entity_links, now,
                   path, instance, connections, call, last, threads>>

NextUtils ==
    \/ SearchSourcesByTitle
    \/ ValidateInputData

SpecUtils == Init /\ [][NextUtils]_vars


(***************************************************************************)
(* C21. Title search: search_sources_by_title returns exactly the input    *)
(* sources whose title, case-insensitively, equals the query, contains the *)
(* query, or contains one of the whitespace-separated words of the query;  *)
(* none of them twice; every exact match before every match by containment *)
(* only, every such match before every match by a word only; and the       *)
(* sources of one tier in their input order. Sources that match in no tier *)
(* are absent.                                                             *)
(***************************************************************************)
\* 3 for a title equal to the query, 2 for one that contains it, 1 for one
\* that contains a word of it, 0 for one that matches in no tier.
Tier(title, query) ==
    LET t == str_lower(title)
        q == str_lower(query)
        words == {str_split(q)[w] : w \in DOMAIN str_split(q)}
    IN IF t = q THEN 3
       ELSE IF str_in(q, t) THEN 2
       ELSE IF \E word \in words : str_in(word, t) THEN 1
       ELSE 0

C21_TitleSearch ==
  [](util.fn = "search_sources_by_title" =>
        LET input == util.sources
            query == util.query
            found == util.returned
        IN /\ \A k \in DOMAIN found :
                 /\ found[k].id \in DOMAIN input
                 /\ found[k] = input[found[k].id]
           /\ \A k, l \in DOMAIN found : found[k].id = found[l].id => k = l
           /\ {found[k].id : k \in DOMAIN found}
                 = {i \in DOMAIN input : Tier(input[i].title, query) > 0}
           /\ \A k, l \in DOMAIN found :
                 k < l =>
                    \/ Tier(found[k].title, query) > Tier(found[l].title, query)
                    \/ /\ Tier(found[k].title, query) = Tier(found[l].title, query)
                       /\ found[k].id < found[l].id)

\* "a b" is searched among "b", "d", "c a b" and "A b": the last comes
\* first, as the exact match, then "c a b" that contains the query, then
\* "b" that is a word of it; "d" is absent.
C21_Witness ==
    /\ util.fn = "search_sources_by_title"
    /\ util.query = <<"a", " ", "b">>
    /\ util.sources = Summaries(<< <<"b">>, <<"d">>, <<"c", " ", "a", " ", "b">>,
                                   <<"A", " ", "b">> >>)
    /\ util.returned = << [id |-> 4, title |-> <<"A", " ", "b">>],
                          [id |-> 3, title |-> <<"c", " ", "a", " ", "b">>],
                          [id |-> 1, title |-> <<"b">>] >>


(***************************************************************************)
(* C22. validate_input_data returns the empty list if and only if the four *)
(* required fields are present and non-empty, source_type is a source      *)
(* type, identifier_type is an identifier type and, when identifier_type   *)
(* is 'url', the identifier value passes the URL shape check; and every    *)
(* condition that is violated has an error string of its own in the list:  *)
(* a missing or empty field is reported as missing, a type outside its     *)
(* vocabulary as missing or invalid, a malformed URL as such.              *)
(***************************************************************************)
C22_InputValidation ==
  [](util.fn = "validate_input_data" =>
        LET data == util.data
            errors == {util.returned[k] : k \in DOMAIN util.returned}
            filled == {f \in DOMAIN data : data[f] \notin {"", NULL}}
            fields == {"title", "source_type", "identifier_type", "identifier_value"}
        IN /\ util.returned = <<>> <=>
                 /\ filled = fields
                 /\ data["source_type"] \in {"paper", "webpage", "book", "video", "blog"}
                 /\ data["identifier_type"] \in
                       {"semantic_scholar", "arxiv", "doi", "isbn", "url"}
                 /\ data["identifier_type"] = "url" =>
                       validate_url(data["identifier_value"])
           /\ \A f \in fields \ filled : <<"Missing required field", f>> \in errors
           /\ \/ "source_type" \notin DOMAIN data
              \/ data["source_type"] \in {"paper", "webpage", "book", "video", "blog"}
              \/ <<"Invalid source type", data["source_type"]>> \in errors
           /\ \/ "identifier_type" \notin DOMAIN data
              \/ data["identifier_type"] \in
                    {"semantic_scholar", "arxiv", "doi", "isbn", "url"}
              \/ <<"Invalid identifier type", data["identifier_type"]>> \in errors
           /\ ( /\ {"identifier_type", "identifier_value"} \subseteq filled
                /\ data["identifier_type"] = "url"
                /\ ~validate_url(data["identifier_value"]) )
                 => <<"Invalid URL format">> \in errors)

\* A bag with an empty title, the source type 'podcast' and the url
\* "example.com" has the three errors, in this order.
C22_Witness ==
    /\ util.fn = "validate_input_data"
    /\ util.data = [title |-> "", source_type |-> "podcast",
                    identifier_type |-> "url", identifier_value |-> "example.com"]
    /\ util.returned = << <<"Missing required field", "title">>,
                          <<"Invalid source type", "podcast">>,
                          <<"Invalid URL format">> >>


(***************************************************************************)
(* C23. Source identity fields are immutable. The id add_source returns is *)
(* the id of no source stored before, whatever uuid4 gives; the source it  *)
(* stores has exactly the one identifier given; and no call of any         *)
(* operation, also a second of the clock later, changes the id, the title, *)
(* the type, the identifiers or created_at of a stored source, or removes  *)
(* it.                                                                     *)
(***************************************************************************)
\* The identity fields of a row of sources.
Identity(row) ==
    [id |-> row.id, title |-> row.title, type |-> row.type,
     identifiers |-> row.identifiers, created_at |-> row.created_at]

\* The sources stored in `before` are in `after`, each with its identity.
IdentityKept(before, after) ==
    /\ Len(after) >= Len(before)
    /\ \A i \in DOMAIN before : Identity(after[i]) = Identity(before[i])

C23_IdentityImmutable ==
  /\ [][IdentityKept(sources, sources')]_vars
  /\ [](/\ \A i \in DOMAIN sources : Cardinality(DOMAIN Identifiers(sources[i])) = 1
        /\ \A clock \in {now + 1}, fault \in Faults :
            /\ \A uuid \in 1..(Len(sources) + 1), title \in {"Other"},
                  source_type \in {"paper", "video"},
                  identifier_type \in {"doi"},
                  identifier_value \in IdentifierValues :
                  LET r == add_source(db, clock, uuid, fault, title, source_type,
                                      identifier_type, identifier_value)
                  IN /\ IdentityKept(sources, r.db.sources)
                     /\ r.outcome = "ok" =>
                           /\ r.value \notin StoredIds
                           /\ Len(r.db.sources) = Len(sources) + 1
                           /\ LET row == r.db.sources[Len(r.db.sources)]
                              IN /\ row.id = r.value
                                 /\ row.title = title
                                 /\ row.type = source_type
                                 /\ row.created_at = clock
                                 /\ Identifiers(row) = (identifier_type :> identifier_value)
            /\ \A source_id \in SourceIds(db) :
                  /\ IdentityKept(sources,
                        add_note(db, clock, fault, source_id, "summary", "c2").db.sources)
                  /\ \A new_status \in VALID_STATUS_VALUES \cup {"done"} :
                        IdentityKept(sources,
                           update_status(db, fault, source_id, new_status).db.sources)
                  /\ IdentityKept(sources,
                        link_to_entity(db, clock, fault, source_id, "Transformer",
                                       "critiques", NULL).db.sources)
                  /\ \A got \in get_source_by_id(db, source_id) :
                        IdentityKept(sources, got.db.sources))

\* The first source stored has been moved to 'completed', has a note and a
\* link, and another source was added after it: it still has its id, its
\* title, its type, its one identifier and its created_at.
C23_Witness ==
    /\ Len(sources) = 2
    /\ sources[1].status = "completed"
    /\ HasNote(1, "Summary")
    /\ HasLink(1, "transformer")
    /\ Identity(sources[1]) = [id |-> 1, title |-> "Attention", type |-> "paper",
                               identifiers |-> json_dumps("doi" :> "v1"),
                               created_at |-> 0]


(***************************************************************************)
(* C24. Nothing is ever deleted or rewritten: no call removes a source, a  *)
(* note or a link, or changes the content of a note or the relation type   *)
(* or the notes of a link; and whatever call is made from a state,         *)
(* get_source_by_id of a stored source afterwards returns the source with  *)
(* every note and every link it had, as first written.                     *)
(***************************************************************************)
\* The rows of table `before` are rows of `after`, unchanged and at the
\* same place.
RowsKept(before, after) ==
    /\ Len(after) >= Len(before)
    /\ \A i \in DOMAIN before : after[i] = before[i]

\* The store `after` has every source, note and link of `before`.
NothingLost(before, after) ==
    /\ Len(after.sources) >= Len(before.sources)
    /\ \A i \in DOMAIN before.sources : after.sources[i].id = before.sources[i].id
    /\ RowsKept(before.source_notes, after.source_notes)
    /\ RowsKept(before.source_entity_links, after.source_entity_links)

\* After the call `r`, every stored source reads back with the notes and
\* the links it had before the call.
StillReturned(r) ==
    /\ NothingLost(db, r.db)
    /\ \A source_id \in StoredIds :
          \A got \in get_source_by_id(r.db, source_id) :
             /\ got.value # None
             /\ got.value.id = source_id
             /\ NotesOf(db, source_id)
                   \subseteq {got.value.notes[k] : k \in DOMAIN got.value.notes}
             /\ LinksOf(db, source_id)
                   \subseteq {got.value.entity_links[k] : k \in DOMAIN got.value.entity_links}

C24_NothingDeletedOrRewritten ==
  /\ [][NothingLost(db, [sources |-> sources', source_notes |-> source_notes',
                         source_entity_links |-> source_entity_links'])]_vars
  /\ [](\A fault \in {"none", "commit"} :
          /\ StillReturned(add_source(db, now, uuid4(db), fault, "Other", "paper",
                                      "doi", "v2"))
          /\ \A source_id \in SourceIds(db) :
                /\ StillReturned(add_note(db, now, fault, source_id, "Summary", "c2"))
                /\ StillReturned(update_status(db, fault, source_id, "archived"))
                /\ StillReturned(link_to_entity(db, now, fault, source_id, "transformer",
                                                "critiques", "second")))

\* The first source has the note and the link it was given first, after a
\* second source, a change of status and a refused second note of the same
\* title.
C24_Witness ==
    /\ Len(sources) = 2
    /\ source_notes # <<>>
    /\ source_entity_links # <<>>
    /\ sources[1].status = "reading"
    /\ source_notes[1] = [source_id |-> 1, note_title |-> "Summary",
                          content |-> "c1", created_at |-> 0]
    /\ source_entity_links[1] = [source_id |-> 1, entity_name |-> "transformer",
                                 relation_type |-> "introduces", notes |-> "first",
                                 created_at |-> 0]
    /\ add_note(db, now, "none", 1, "Summary", "c2").outcome = "ConflictError"
    /\ \A got \in get_source_by_id(db, 1) :
          /\ got.value.notes[1].content = "c1"
          /\ got.value.entity_links[1].notes = "first"


(***************************************************************************)
(* C25. The store is a second line of defense for the vocabularies: a      *)
(* statement that reaches it, the validation of the access layer           *)
(* bypassed, with a source type, a status, a relation type or an           *)
(* identifier type outside its vocabulary is rejected by the store, and    *)
(* the store accepts every value that the validation accepts.              *)
(***************************************************************************)
C25_StoreSecondLineOfDefense ==
    LET conn == sqlite_connect(db)
    IN /\ \A outside \in OutsideVocabulary \ {NULL} :
             /\ sql_insert_source(conn, now, uuid4(db), "Other", outside,
                                  json_dumps("doi" :> "v3")).error
             /\ sql_insert_source(conn, now, uuid4(db), "Other", "paper",
                                  json_dumps(outside :> "v3")).error
             /\ \A source_id \in StoredIds :
                   /\ sql_update_status(conn, outside, source_id).error
                   /\ sql_insert_link(conn, now, source_id, "other", outside, NULL).error
       /\ \A source_type \in VALID_SOURCE_TYPES, identifier_type \in VALID_IDENTIFIER_TYPES :
             ~sql_insert_source(conn, now, uuid4(db), "Other", source_type,
                                json_dumps(identifier_type :> "v3")).error
       /\ \A source_id \in StoredIds :
             /\ \A status \in VALID_STATUS_VALUES :
                   ~sql_update_status(conn, status, source_id).error
             /\ \A relation_type \in VALID_RELATION_TYPES :
                   ~sql_insert_link(conn, now, source_id, "other", relation_type, NULL).error


(***************************************************************************)
(* C26. A successful mutating call changes exactly one row and nothing     *)
(* else: add_source appends one row to sources, add_note one to            *)
(* source_notes, link_to_entity one to source_entity_links, and each       *)
(* leaves every other row of the three tables as it was (so add_note       *)
(* leaves the status of its source); update_status changes the status      *)
(* field of the source of the id and nothing else. No step of any          *)
(* operation changes or adds more than one row.                            *)
(***************************************************************************)
\* `after` is `before` with one row more.
OneRowAdded(before, after) ==
    Len(after) = Len(before) + 1 /\ SubSeq(after, 1, Len(before)) = before

\* The rows a step changes or adds.
RowsWritten ==
    Cardinality({i \in DOMAIN sources : sources'[i] # sources[i]})
    + (Len(sources') - Len(sources))
    + (Len(source_notes') - Len(source_notes))
    + (Len(source_entity_links') - Len(source_entity_links))

C26_FrameEffect ==
  /\ [][/\ NothingLost(db, [sources |-> sources', source_notes |-> source_notes',
                            source_entity_links |-> source_entity_links'])
        /\ RowsWritten <= 1]_vars
  /\ [](/\ \A title \in Titles, source_type \in {"paper", "video"},
              identifier_value \in IdentifierValues :
              LET r == add_source(db, now, uuid4(db), "none", title, source_type,
                                  "doi", identifier_value)
              IN r.outcome = "ok" =>
                    /\ OneRowAdded(sources, r.db.sources)
                    /\ r.db.source_notes = source_notes
                    /\ r.db.source_entity_links = source_entity_links
        /\ \A source_id \in StoredIds :
              /\ \A note_title \in {"Summary", "summary"} :
                    LET r == add_note(db, now, "none", source_id, note_title, "c2")
                    IN r.outcome = "ok" =>
                          /\ OneRowAdded(source_notes, r.db.source_notes)
                          /\ r.db.sources = sources
                          /\ r.db.source_entity_links = source_entity_links
              /\ \A entity_name \in {"transformer", "Transformer"} :
                    LET r == link_to_entity(db, now, "none", source_id, entity_name,
                                            "critiques", "second")
                    IN r.outcome = "ok" =>
                          /\ OneRowAdded(source_entity_links, r.db.source_entity_links)
                          /\ r.db.sources = sources
                          /\ r.db.source_notes = source_notes
              /\ \A new_status \in VALID_STATUS_VALUES :
                    LET r == update_status(db, "none", source_id, new_status)
                    IN /\ r.outcome = "ok"
                       /\ r.db.source_notes = source_notes
                       /\ r.db.source_entity_links = source_entity_links
                       /\ r.db.sources =
                             [i \in DOMAIN sources |->
                                IF sources[i].id = source_id
                                THEN [sources[i] EXCEPT !.status = new_status]
                                ELSE sources[i]])

\* Of two sources with a note and a link, the first has been moved to
\* 'completed' and the second is still 'unread'; archiving the second
\* leaves the first 'completed'.
C26_Witness ==
    /\ Len(sources) = 2
    /\ source_notes # <<>>
    /\ source_entity_links # <<>>
    /\ sources[1].status = "completed"
    /\ sources[2].status = "unread"
    /\ LET r == update_status(db, "none", 2, "archived")
       IN /\ r.outcome = "ok"
          /\ r.db.sources[1].status = "completed"
          /\ r.db.sources[2].status = "archived"


(***************************************************************************)
(* C27. Referential integrity: in every reachable state every note and     *)
(* every link has the id of a stored source as its source id. It is the    *)
(* access layer that keeps it so: add_note and link_to_entity store        *)
(* nothing for an id that no source has, while the INSERT statements of    *)
(* the store accept such an id.                                            *)
(***************************************************************************)
C27_ReferentialIntegrity ==
  [](/\ \A i \in DOMAIN source_notes : source_notes[i].source_id \in StoredIds
     /\ \A i \in DOMAIN source_entity_links :
           source_entity_links[i].source_id \in StoredIds
     /\ \A source_id \in SourceIds(db) \ StoredIds, fault \in Faults :
           /\ \A note_title \in NoteTitles :
                 add_note(db, now, fault, source_id, note_title, "c1").db = db
           /\ \A entity_name \in EntityNames :
                 link_to_entity(db, now, fault, source_id, entity_name,
                                "discusses", NULL).db = db
           /\ ~sql_insert_note(sqlite_connect(db), now, source_id, "Summary", "c1").error
           /\ ~sql_insert_link(sqlite_connect(db), now, source_id, "transformer",
                               "discusses", NULL).error)

\* Two sources have notes and links between them, and a note and a link
\* for the id 3, which the store would take, are refused.
C27_Witness ==
    /\ StoredIds = {1, 2}
    /\ {source_notes[i].source_id : i \in DOMAIN source_notes}
          \cup {source_entity_links[i].source_id : i \in DOMAIN source_entity_links}
          = {1, 2}
    /\ add_note(db, now, "none", 3, "Summary", "c1").outcome = "NotFoundError"
    /\ link_to_entity(db, now, "none", 3, "transformer", "discusses", NULL).outcome
          = "NotFoundError"
    /\ ~sql_insert_note(sqlite_connect(db), now, 3, "Summary", "c1").error


(***************************************************************************)
(* C28. Validation precedes the existence and conflict checks:             *)
(* link_to_entity with a relation type outside the vocabulary and          *)
(* update_status with a status outside the vocabulary fail with the        *)
(* validation error that names the value, whether or not a source has the  *)
(* id, whether or not the link exists, and whatever the store would do to  *)
(* a statement (none is executed); add_source with an invalid source type  *)
(* and an invalid identifier type reports the source type, whether or not  *)
(* the identifier value is stored.                                         *)
(***************************************************************************)
\* The call `r` failed on the validation of `value` as a `what`.
Invalid(r, what, value) ==
    r.outcome = "ValidationError" /\ r.detail = <<what, value>> /\ r.db = db

C28_ValidationFirst ==
  [](\A outside \in OutsideVocabulary, fault \in Faults :
        /\ \A source_id \in SourceIds(db) :
              /\ \A entity_name \in EntityNames :
                    Invalid(link_to_entity(db, now, fault, source_id, entity_name,
                                           outside, NULL),
                            "relation type", outside)
              /\ Invalid(update_status(db, fault, source_id, outside), "status", outside)
        /\ \A wrong \in {"ssn", "", NULL}, identifier_value \in IdentifierValues :
              Invalid(add_source(db, now, uuid4(db), fault, "Other", outside, wrong,
                                 identifier_value),
                      "source type", outside))

\* The first source is linked to "transformer": a second link to it of the
\* relation 'invents', a link of the relation 'invents' and the status
\* 'done' for the id 3 that no source has, all fail on validation, as does
\* the podcast identified by 'ssn', on its type.
C28_Witness ==
    /\ StoredIds = {1, 2}
    /\ HasLink(1, "transformer")
    /\ Invalid(link_to_entity(db, now, "none", 1, "transformer", "invents", NULL),
               "relation type", "invents")
    /\ Invalid(link_to_entity(db, now, "none", 3, "transformer", "invents", NULL),
               "relation type", "invents")
    /\ Invalid(update_status(db, "none", 3, "done"), "status", "done")
    /\ Invalid(add_source(db, now, uuid4(db), "none", "Other", "podcast", "ssn", "v1"),
               "source type", "podcast")


(***************************************************************************)
(* Two threads call one instance at the same time. A call is followed      *)
(* statement by statement: the store executes one statement at a time, a   *)
(* SELECT reads the file as the last commit left it, an INSERT opens the   *)
(* transaction of its connection and takes the write lock of the file,     *)
(* which the connection holds until its commit. An INSERT that finds the   *)
(* lock held waits for it; it fails with 'database is locked', an          *)
(* sqlite3.Error, when the wait exceeds the timeout of the connection.     *)
(***************************************************************************)
\* The rows of the store and the calls in progress, together.
MaxThreadRows == 3

Threads == {1, 2}

\* A thread that is in no call.
IdleThread ==
    [pc |-> "idle", op |-> "none", args |-> <<>>, fresh |-> FALSE,
     conn |-> <<>>, outcome |-> "none", value |-> <<>>]

\* The calls of `op` a thread may make on `store`: two add_source of one
\* identity, two add_note of one (source id, note title), two
\* link_to_entity of one (source id, entity name), and a link of a relation
\* type outside the vocabulary.
ThreadCalls(store, op) ==
    IF op = "add_source"
    THEN {[op |-> op, args |-> <<title, "paper", "doi", "v1">>] :
             title \in {"Attention", "Other"}}
    ELSE IF op = "add_note"
    THEN {[op |-> op, args |-> <<source_id, "Summary", content>>] :
             source_id \in 1..Len(store.sources), content \in {"c1", "c2"}}
    ELSE {[op |-> op, args |-> <<source_id, "transformer", relation_type, NULL>>] :
             source_id \in 1..Len(store.sources),
             relation_type \in {"introduces", "discusses", "invents"}}

\* The key of the call `c` is not in `store`: no source has the identity of
\* an add_source, the source has no note of the title of an add_note, no
\* link to the entity of a link_to_entity.
KeyAbsent(store, c) ==
    LET conn == sqlite_connect(store)
    IN IF c.op = "add_source"
       THEN sql_select_source_by_identifier(conn, c.args[2], json_path(c.args[3]),
                                            c.args[4]) = {}
       ELSE IF c.op = "add_note"
       THEN sql_select_note(conn, c.args[1], c.args[2]) = {}
       ELSE sql_select_link(conn, c.args[1], c.args[2]) = {}

\* The validations a call makes before its first statement.
Validated(c) ==
    IF c.op = "add_source"
    THEN validate_source_type(c.args[2]) /\ validate_identifier_type(c.args[3])
    ELSE IF c.op = "link_to_entity" THEN validate_relation_type(c.args[3])
    ELSE TRUE

\* A write lock that is never held.
write_lock_never_held(ts, t) == FALSE

\* Another connection than the one of thread t holds the write lock: the
\* one of a thread between its INSERT and its commit.
write_lock_held(ts, t) == \E u \in Threads \ {t} : ts[u].pc = "commit"

\* The call of thread t ends.
Done(t, outcome, value) ==
    threads' = [threads EXCEPT ![t].pc = "done", ![t].conn = <<>>,
                               ![t].outcome = outcome, ![t].value = value]

InitThreads ==
    /\ sources = create_database.sources
    /\ source_notes = create_database.source_notes
    /\ source_entity_links = create_database.source_entity_links
    /\ now = 0
    /\ path = "initialized"
    /\ instance = "initialized"
    /\ connections = 0
    /\ call = Idle
    /\ last = Ended("__init__", "initialized", 0, "none")
    /\ threads = [t \in Threads |-> IdleThread]
    /\ util = NoUtil

\* A thread calls a method: the validations, then on to the first SELECT.
Start(t) ==
    /\ threads[t].pc = "idle"
    /\ Rows(db) + Cardinality({u \in Threads : threads[u].pc \notin {"idle", "done"}})
          < MaxThreadRows
    /\ \E op \in {"add_source", "add_note", "link_to_entity"} :
       \E c \in ThreadCalls(db, op) :
          threads' = [threads EXCEPT ![t] =
             [IdleThread EXCEPT
                !.pc = IF ~Validated(c) THEN "done"
                       ELSE IF c.op = "add_source" THEN "lookup" ELSE "select_source",
                !.op = c.op, !.args = c.args, !.fresh = KeyAbsent(db, c),
                !.outcome = IF Validated(c) THEN "none" ELSE "ValidationError"]]
    /\ UNCHANGED <<sources, source_notes, source_entity_links, now,
                   path, instance, connections, call, last, util>>

\* The SELECT of find_source_by_identifier, on a connection of its own,
\* and `if existing: raise`.
Lookup(t) ==
    /\ threads[t].pc = "lookup"
    /\ LET args == threads[t].args
           found == find_source_by_identifier(db, args[3], args[4], args[2])
       IN IF found.value # None
          THEN Done(t, "ConflictError", <<found.value.id>>)
          ELSE threads' = [threads EXCEPT ![t].pc = "insert"]
    /\ UNCHANGED <<sources, source_notes, source_entity_links, now,
                   path, instance, connections, call, last, util>>

\* SELECT id FROM sources WHERE id = ?  of add_note and link_to_entity.
SelectSource(t) ==
    /\ threads[t].pc = "select_source"
    /\ IF sql_select_source_by_id(sqlite_connect(db), threads[t].args[1]) = {}
       THEN Done(t, "NotFoundError", <<>>)
       ELSE threads' = [threads EXCEPT ![t].pc = "select_key"]
    /\ UNCHANGED <<sources, source_notes, source_entity_links, now,
                   path, instance, connections, call, last, util>>

\* SELECT 1 FROM source_notes | source_entity_links WHERE source_id = ? AND ...
SelectKey(t) ==
    /\ threads[t].pc = "select_key"
    /\ IF ~KeyAbsent(db, threads[t])
       THEN Done(t, "ConflictError", <<>>)
       ELSE threads' = [threads EXCEPT ![t].pc = "insert"]
    /\ UNCHANGED <<sources, source_notes, source_entity_links, now,
                   path, instance, connections, call, last, util>>

\* The INSERT of the call, on the file as it is, when the lock is free; a
\* constraint that fails raises sqlite3.IntegrityError, which the call
\* turns into its DatabaseError.
Insert(t) ==
    /\ threads[t].pc = "insert"
    /\ ~write_lock_held(threads, t)
    /\ LET args == threads[t].args
           conn == sqlite_connect(db)
           ins == IF threads[t].op = "add_source"
                  THEN sql_insert_source(conn, now, uuid4(db), args[1], args[2],
                                         json_dumps(args[3] :> args[4]))
                  ELSE IF threads[t].op = "add_note"
                  THEN sql_insert_note(conn, now, args[1], args[2], args[3])
                  ELSE sql_insert_link(conn, now, args[1], args[2], args[3], args[4])
       IN IF ins.error
          THEN Done(t, "StoreError", <<>>)
          ELSE threads' = [threads EXCEPT
                  ![t].pc = "commit", ![t].conn = <<ins.conn>>,
                  ![t].value = IF threads[t].op = "add_source" THEN <<uuid4(db)>> ELSE <<>>]
    /\ UNCHANGED <<sources, source_notes, source_entity_links, now,
                   path, instance, connections, call, last, util>>

\* The INSERT waits for the lock longer than the timeout.
Locked(t) ==
    /\ threads[t].pc = "insert"
    /\ write_lock_held(threads, t)
    /\ Done(t, "StoreError", <<>>)
    /\ UNCHANGED <<sources, source_notes, source_entity_links, now,
                   path, instance, connections, call, last, util>>

\* conn.commit(), and the return.
Commit(t) ==
    /\ threads[t].pc = "commit"
    /\ LET left == sqlite_close(sqlite_commit(threads[t].conn[1]))
       IN /\ sources' = left.sources
          /\ source_notes' = left.source_notes
          /\ source_entity_links' = left.source_entity_links
    /\ Done(t, "ok", threads[t].value)
    /\ UNCHANGED <<now, path, instance, connections, call, last, util>>

\* The threads have returned from their calls.
Join ==
    /\ \A t \in Threads : threads[t].pc \in {"idle", "done"}
    /\ \E t \in Threads : threads[t].pc = "done"
    /\ threads' = [t \in Threads |-> IdleThread]
    /\ UNCHANGED <<sources, source_notes, source_entity_links, now,
                   path, instance, connections, call, last, util>>

NextThreads ==
    \/ \E t \in Threads : Start(t)
    \/ \E t \in Threads : Lookup(t)
    \/ \E t \in Threads : SelectSource(t)
    \/ \E t \in Threads : SelectKey(t)
    \/ \E t \in Threads : Insert(t)
    \/ \E t \in Threads : Locked(t)
    \/ \E t \in Threads : Commit(t)
    \/ Join

SpecThreads == InitThreads /\ [][NextThreads]_vars


(***************************************************************************)
(* C29, as claimed. Duplicate-identity protection under interleaving: when *)
(* two add_source calls of one (type, identifier_type, identifier_value)   *)
(* are interleaved statement by statement, at most one of them inserts a   *)
(* row, so the store never holds two sources of one identity.              *)
(***************************************************************************)
\* Thread t has returned from a call of `op` with `outcome`.
Returned(t, op, outcome) ==
    threads[t].pc = "done" /\ threads[t].op = op /\ threads[t].outcome = outcome

RowsOfKey(store, c) ==
    LET conn == sqlite_connect(store)
    IN IF c.op = "add_note" THEN sql_select_note(conn, c.args[1], c.args[2])
       ELSE sql_select_link(conn, c.args[1], c.args[2])

\* The row i of the table of the call `c` is the one `c` inserts.
RowOfCall(store, c, i) ==
    IF c.op = "add_note"
    THEN store.source_notes[i].content = c.args[3]
    ELSE store.source_entity_links[i].relation_type = c.args[3]

C30_KeyUniqueUnderInterleaving ==
  [](/\ \A i, j \in DOMAIN source_notes :
           (/\ source_notes[i].source_id = source_notes[j].source_id
            /\ source_notes[i].note_title = source_notes[j].note_title) => i = j
     /\ \A i, j \in DOMAIN source_entity_links :
           (/\ source_entity_links[i].source_id = source_entity_links[j].source_id
            /\ source_entity_links[i].entity_name = source_entity_links[j].entity_name)
              => i = j
     /\ \A t, u \in Threads :
           (/\ t # u
            /\ threads[t].pc = "done" /\ threads[u].pc = "done"
            /\ threads[t].op \in {"add_note", "link_to_entity"}
            /\ threads[u].op = threads[t].op
            /\ threads[t].args[1] = threads[u].args[1]
            /\ threads[t].args[2] = threads[u].args[2]
            /\ threads[t].fresh
            /\ Validated(threads[t]) /\ Validated(threads[u]))
           => \E ok \in {t, u} :
                 LET other == CHOOSE v \in {t, u} : v # ok
                 IN /\ threads[ok].outcome = "ok"
                    /\ threads[other].outcome \in {"ConflictError", "StoreError"}
                    /\ Cardinality(RowsOfKey(db, threads[ok])) = 1
                    /\ \A i \in RowsOfKey(db, threads[ok]) :
                          RowOfCall(db, threads[ok], i))

\* Both threads have returned from add_note of the note "Summary" of the
\* first source, which had none when they began: the first with True, the
\* second, whose SELECT found no such note either, with the error of its
\* INSERT; the source has the one note, of the content of the first.
C30_Witness ==
    /\ Returned(1, "add_note", "ok")
    /\ Returned(2, "add_note", "StoreError")
    /\ threads[1].fresh /\ threads[2].fresh
    /\ threads[1].args = <<1, "Summary", "c1">>
    /\ threads[2].args = <<1, "Summary", "c2">>
    /\ Cardinality(RowsOfKey(db, threads[1])) = 1
    /\ \A i \in RowsOfKey(db, threads[1]) : source_notes[i].content = "c1"

====
